---- MODULE Spec2Model ----
(***************************************************************************)
(* Model of the content pipeline of the personal blog and of its test      *)
(* scripts:                                                                *)
(*   src/src/utils/blog.ts    getPublishedBlogPosts, calculateReadingTime  *)
(*   src/unnamed/part_007     calculateReadingTime, generateExcerpt,       *)
(*                            sanitizeSlug, sanitizeTags                   *)
(*   src/unnamed/part_005     the schema of the 'blog' collection          *)
(*   src/src/config/site.ts   isValidUrl, getSanitizedSocialLinks          *)
(*   src/src/utils/web-vitals.ts   getRating, getLCP, getFID, getCLS,      *)
(*                            getFCP, getTTFB, initWebVitals               *)
(*   src/tests/cross-browser-test.js   CrossBrowserTester                  *)
(*   src/tests/performance-accessibility-test.js                           *)
(*                            PerformanceAccessibilityTester               *)
(*                                                                         *)
(* A JavaScript string is modelled as the sequence of its UTF-16 code      *)
(* units, each an integer (97 is "a", 65 is "A", 32 is " ", 10 is "\n",    *)
(* 45 is "-", 60 is "<", 62 is ">", 42 is "*", 46 is ".").  The inputs     *)
(* are ASCII, where String.prototype.toLowerCase only maps A-Z to a-z.     *)
(***************************************************************************)
EXTENDS Integers, Sequences, FiniteSets, TLC

VARIABLES
  collection,       \* the entries of the 'blog' collection, in the order the loader delivers them
  published,        \* the array getPublishedBlogPosts resolved with
  slug,             \* argument of sanitizeSlug
  slugOnce,         \* sanitizeSlug(slug)
  slugTwice,        \* sanitizeSlug(sanitizeSlug(slug))
  content,          \* argument of calculateReadingTime, as segments (see Text)
  readingTime,      \* result of calculateReadingTime of the security helpers
  blogReadingTime,  \* result of calculateReadingTime of utils/blog.ts
  body,             \* argument content of generateExcerpt
  maxLength,        \* argument maxLength of generateExcerpt
  excerpt,          \* result of generateExcerpt
  tags,             \* argument of sanitizeTags: an array of values
  sanitizedTags,    \* result of sanitizeTags
  rawData,          \* the front matter of one entry, as the YAML parser hands it to the schema
  parseResult,      \* what the schema of the 'blog' collection makes of rawData
  rawEntries,       \* the files of the 'blog' collection: identifier and front matter
  loader,           \* the promise of getCollection: pending, resolved or rejected
  loadError,        \* what the await of getCollection threw
  crossResults,     \* this.results of the CrossBrowserTester
  crossPc,          \* position of runAllTests of the CrossBrowserTester in its calls
  crossReport,      \* the summary generateReport of the CrossBrowserTester printed
  perfFiles,        \* the paths that exist in the working directory of the PerformanceAccessibilityTester
  perfResults,      \* this.results of the PerformanceAccessibilityTester
  perfPc,           \* position of runAllTests of the PerformanceAccessibilityTester in its calls
  perfReport,       \* the summary generateReport of the PerformanceAccessibilityTester printed
  url,              \* argument of isValidUrl
  urlValid,         \* how isValidUrl(url) completed
  social,           \* the entries of SITE_CONFIG.social
  socialLinks,      \* how getSanitizedSocialLinks() completed
  globalObject,     \* window in web-vitals.ts: whether it is defined, has PerformanceObserver,
                    \* and the entry types observe() throws on
  visibilityState,  \* document.visibilityState
  callbackArg,      \* the argument of initWebVitals
  vitalsPc,         \* position of initWebVitals in its calls
  observers,        \* per metric: whether its PerformanceObserver observes, and the callback it reports to
  visibilityListeners,  \* the metrics whose visibilitychange listener is registered
  lcpMetric,        \* metric of the closure of getLCP
  clsValue,         \* clsValue of the closure of getCLS, in hundredths
  clsEntries,       \* clsEntries of the closure of getCLS
  clsMetric,        \* metric of the closure of getCLS
  reports,          \* per metric: the calls of the callback so far, each with the metric as it was at the call
  warnings,         \* the metrics console.warn reported a failed measurement of
  delivered,        \* per metric: the batches of entries delivered to its observer so far
  hiddenSeen,       \* whether a visibilitychange to hidden was dispatched since initWebVitals returned
  events,           \* number of browser events dispatched so far
  returned          \* the names of the calls that have returned

vars == <<collection, published, slug, slugOnce, slugTwice, content, readingTime,
          blogReadingTime, body, maxLength, excerpt, tags, sanitizedTags, rawData, parseResult,
          rawEntries, loader, loadError,
          crossResults, crossPc, crossReport,
          perfFiles, perfResults, perfPc, perfReport,
          url, urlValid, social, socialLinks,
          globalObject, visibilityState, callbackArg, vitalsPc, observers,
          visibilityListeners, lcpMetric, clsValue, clsEntries, clsMetric, reports,
          warnings, delivered, hiddenSeen, events,
          returned>>

postVars == <<collection, published>>
slugVars == <<slug, slugOnce, slugTwice>>
readingVars == <<content, readingTime, blogReadingTime>>
excerptVars == <<body, maxLength, excerpt>>
tagVars == <<tags, sanitizedTags>>
schemaVars == <<rawData, parseResult>>
loadVars == <<rawEntries, loader, loadError>>
crossVars == <<crossResults, crossPc, crossReport>>
perfVars == <<perfFiles, perfResults, perfPc, perfReport>>
socialVars == <<url, urlValid, social, socialLinks>>
vitalsVars == <<globalObject, visibilityState, callbackArg, vitalsPc, observers,
                visibilityListeners, lcpMetric, clsValue, clsEntries, clsMetric, reports,
                warnings, delivered, hiddenSeen, events>>

\* What the calls of one group leave alone.
exceptPostVars == <<slugVars, readingVars, excerptVars, tagVars, schemaVars, loadVars, crossVars, perfVars, socialVars, vitalsVars>>
exceptSlugVars == <<postVars, readingVars, excerptVars, tagVars, schemaVars, loadVars, crossVars, perfVars, socialVars, vitalsVars>>
exceptReadingVars == <<postVars, slugVars, excerptVars, tagVars, schemaVars, loadVars, crossVars, perfVars, socialVars, vitalsVars>>
exceptExcerptVars == <<postVars, slugVars, readingVars, tagVars, schemaVars, loadVars, crossVars, perfVars, socialVars, vitalsVars>>
exceptTagVars == <<postVars, slugVars, readingVars, excerptVars, schemaVars, loadVars, crossVars, perfVars, socialVars, vitalsVars>>
exceptSchemaVars == <<postVars, slugVars, readingVars, excerptVars, tagVars, loadVars, crossVars, perfVars, socialVars, vitalsVars>>
\* The loader fills the collection of postVars.
exceptLoadVars == <<slugVars, readingVars, excerptVars, tagVars, schemaVars, crossVars, perfVars, socialVars, vitalsVars>>
exceptCrossVars == <<postVars, slugVars, readingVars, excerptVars, tagVars, schemaVars, loadVars, perfVars, socialVars, vitalsVars>>
exceptPerfVars == <<postVars, slugVars, readingVars, excerptVars, tagVars, schemaVars, loadVars, crossVars, socialVars, vitalsVars>>
exceptSocialVars == <<postVars, slugVars, readingVars, excerptVars, tagVars, schemaVars, loadVars, crossVars, perfVars, vitalsVars>>
exceptVitalsVars == <<postVars, slugVars, readingVars, excerptVars, tagVars, schemaVars, loadVars, crossVars, perfVars, socialVars>>

(***************************************************************************)
(* Bounds of the model.                                                    *)
(***************************************************************************)
MaxPosts == 3        \* entries the loader delivers
MaxSlugLen == 4      \* code units of a sanitizeSlug argument
MaxContentLen == 3   \* code units of an exhaustively enumerated reading-time body
MaxBodyLen == 5      \* code units of an exhaustively enumerated excerpt body
MaxMaxLength == 3    \* largest maxLength tried on the enumerated excerpt bodies
MaxTags == 3         \* values of an exhaustively enumerated sanitizeTags argument
MaxTagPrefix == 2    \* values before the run of different valid tags
MaxFieldLen == 2     \* code units of a string in the front matter of an entry
MaxRawEntries == 2   \* files of the collection the loader validates
RandomSteps == 4     \* values of Math.random() tried, evenly spaced over [0, 1)
MaxUrlRest == 2      \* code units after the scheme of an isValidUrl argument
MaxEvents == 3       \* browser events dispatched after initWebVitals returned
MaxEventsAfterFailure == 1  \* the same where observe() threw in a measurement

(***************************************************************************)
(* Strings.                                                                *)
(***************************************************************************)
\* All sequences over alphabet A of length 0..n.
StringsUpTo(A, n) == UNION {[1..k -> A] : k \in 0..n}

\* The ECMAScript WhiteSpace and LineTerminator code units: what \s matches
\* and what String.prototype.trim strips.
WhiteSpace == {9, 10, 11, 12, 13, 32, 160, 5760, 8232, 8233, 8239, 8287, 12288, 65279}
              \cup (8192..8202)

IsWhiteSpace(c) == c \in WhiteSpace

\* \w of a non-unicode regular expression: [A-Za-z0-9_].
IsWordChar(c) == c \in (48..57) \cup (65..90) \cup (97..122) \cup {95}

\* String.prototype.toLowerCase on one ASCII code unit.
LowerChar(c) == IF c \in 65..90 THEN c + 32 ELSE c

\* String.prototype.toLowerCase.
ToLowerCase(s) == [i \in 1..Len(s) |-> LowerChar(s[i])]

\* s.slice(0, end) for end >= 0.
SliceTo(s, end) == SubSeq(s, 1, IF end < Len(s) THEN end ELSE Len(s))

\* String.prototype.trim: drop the leading and trailing white space.
Trim(s) ==
  IF \A i \in 1..Len(s) : IsWhiteSpace(s[i]) THEN <<>>
  ELSE LET first == CHOOSE i \in 1..Len(s) :
                      /\ ~IsWhiteSpace(s[i])
                      /\ \A j \in 1..(i - 1) : IsWhiteSpace(s[j])
           last == CHOOSE i \in 1..Len(s) :
                      /\ ~IsWhiteSpace(s[i])
                      /\ \A j \in (i + 1)..Len(s) : IsWhiteSpace(s[j])
       IN SubSeq(s, first, last)

\* s.lastIndexOf(String.fromCharCode(c)), as a 0-based index; -1 when absent.
LastIndexOf(s, c) ==
  IF \A i \in 1..Len(s) : s[i] # c THEN -1
  ELSE (CHOOSE i \in 1..Len(s) : s[i] = c /\ \A j \in (i + 1)..Len(s) : s[j] # c) - 1

(***************************************************************************)
(* sanitizeSlug (part_007, lines 70-76).                                   *)
(***************************************************************************)
\* [a-z0-9-]
IsSlugChar(c) == c \in (97..122) \cup (48..57) \cup {45}

\* .replace(/[^a-z0-9-]/g, '-')
ReplaceNonSlugChars(s) == [i \in 1..Len(s) |-> IF IsSlugChar(s[i]) THEN s[i] ELSE 45]

\* .replace(/-+/g, '-'): every maximal run of hyphens becomes one hyphen.
CollapseHyphens(s) ==
  LET keep == {i \in 1..Len(s) : ~(s[i] = 45 /\ i > 1 /\ s[i - 1] = 45)}
      F[i \in 0..Len(s)] ==
        IF i = 0 THEN <<>>
        ELSE IF i \in keep THEN Append(F[i - 1], s[i]) ELSE F[i - 1]
  IN F[Len(s)]

\* StripEdgeHyphens with a pattern that is not global, .replace(/^-|-$/, ''):
\* only the first match is removed.
StripEdgeHyphensFirstMatch(s) ==
  IF Len(s) > 0 /\ s[1] = 45 THEN SubSeq(s, 2, Len(s))
  ELSE IF Len(s) > 0 /\ s[Len(s)] = 45 THEN SubSeq(s, 1, Len(s) - 1)
  ELSE s

\* .replace(/^-|-$/g, ''): one hyphen at the start and one at the end are removed.
\* The pattern is global, so both alternatives are applied to the same string:
\* "-" loses its only hyphen to the first alternative.
StripEdgeHyphens(s) ==
  LET from == IF Len(s) > 0 /\ s[1] = 45 THEN 2 ELSE 1
      to == IF Len(s) >= from /\ s[Len(s)] = 45 THEN Len(s) - 1 ELSE Len(s)
  IN SubSeq(s, from, to)

\* sanitizeSlug with the last two replacements exchanged.
sanitizeSlugStripFirst(s) ==
  CollapseHyphens(StripEdgeHyphens(ReplaceNonSlugChars(ToLowerCase(s))))

sanitizeSlug(s) == StripEdgeHyphens(CollapseHyphens(ReplaceNonSlugChars(ToLowerCase(s))))

\* "a", "A", "9", "-", " "
SlugAlphabet == {97, 65, 57, 45, 32}
SlugInputs == StringsUpTo(SlugAlphabet, MaxSlugLen)

(***************************************************************************)
(* calculateReadingTime (part_007, lines 7-17, and utils/blog.ts, 29-33).  *)
(***************************************************************************)
maxContentLength == 100000
wordsPerMinute == 200

\* s.split(/\s+/).length: the pieces between the maximal runs of white space,
\* empty pieces included; a string without white space (the empty string too)
\* is one piece.
SplitLength(s) ==
  1 + Cardinality({i \in 1..Len(s) :
                     IsWhiteSpace(s[i]) /\ (i = 1 \/ ~IsWhiteSpace(s[i - 1]))})

\* Math.round(a / b) in the place of Math.ceil(a / b).
MathRoundDiv(a, b) == (2 * a + b) \div (2 * b)

\* Math.ceil(a / b) for integers a >= 0, b > 0.
MathCeilDiv(a, b) == IF a % b = 0 THEN a \div b ELSE (a \div b) + 1

\* Math.max(a, b)
MathMax(a, b) == IF a >= b THEN a ELSE b

\* calculateReadingTime without the .trim() before the split.
calculateReadingTimeUntrimmed(c) ==
  LET safeContent == SliceTo(c, maxContentLength)
      words == SplitLength(safeContent)
      minutes == MathCeilDiv(words, wordsPerMinute)
  IN MathMax(1, minutes)

\* calculateReadingTime with slice(0, 99999) in the place of slice(0, 100000).
calculateReadingTimeShortLimit(c) ==
  LET safeContent == SliceTo(c, maxContentLength - 1)
      words == SplitLength(Trim(safeContent))
      minutes == MathCeilDiv(words, wordsPerMinute)
  IN MathMax(1, minutes)

\* part_007, the helper with the length limit and the floor
calculateReadingTime(c) ==
  LET safeContent == SliceTo(c, maxContentLength)
      words == SplitLength(Trim(safeContent))
      minutes == MathCeilDiv(words, wordsPerMinute)
  IN MathMax(1, minutes)

\* utils/blog.ts
blogCalculateReadingTime(c) ==
  LET words == SplitLength(Trim(c))
  IN MathCeilDiv(words, wordsPerMinute)

\* The unit u repeated n times.
Repeat(u, n) == [i \in 1..(n * Len(u)) |-> u[((i - 1) % Len(u)) + 1]]

\* A body is kept as a sequence of segments [unit, times]; the string it
\* stands for is the concatenation of each unit repeated times times.
RECURSIVE Text(_)
Text(segments) ==
  IF segments = <<>> THEN <<>>
  ELSE Repeat(Head(segments).unit, Head(segments).times) \o Text(Tail(segments))

Segment(u, n) == [unit |-> u, times |-> n]

\* "w", " ", "\n"
ReadingAlphabet == {119, 32, 10}

\* k one-letter words separated by sep (one or two code units of white space).
Words(k, sep) == <<Segment(<<119>> \o sep, k - 1), Segment(<<119>>, 1)>>

\* k words separated by one space, the last word lengthened until the text
\* has n code units.
PaddedWords(k, n) == <<Segment(<<119, 32>>, k - 1), Segment(<<119>>, n - 2 * (k - 1))>>

\* Word counts around the multiples of the reading rate.
RateCounts == {wordsPerMinute - 1, wordsPerMinute, wordsPerMinute + 1,
               2 * wordsPerMinute - 1, 2 * wordsPerMinute, 2 * wordsPerMinute + 1}

\* " ", "\n", " \n"
Separators == {<<32>>, <<10>>, <<32, 10>>}

\* What follows the first maxContentLength - 1 or maxContentLength code units
\* of a long body: " w", "w w", " w w".
LongTails == {<<32, 119>>, <<119, 32, 119>>, <<32, 119, 32, 119>>}

\* What ends a body of maxContentLength - 3 .. maxContentLength code units:
\* "", "w", " w", " ".
BoundaryTails == {<<>>, <<119>>, <<32, 119>>, <<32>>}

ReadingInputs ==
  {<<Segment(s, 1)>> : s \in StringsUpTo(ReadingAlphabet, MaxContentLen)}
  \cup {Words(k, sep) : k \in RateCounts, sep \in Separators}
  \cup {Words(k, <<32>>) \o <<Segment(<<32>>, 1)>> : k \in RateCounts}
  \cup {<<Segment(<<10>>, 1)>> \o Words(k, <<32>>) : k \in RateCounts}
  \cup {PaddedWords(k, n) \o <<Segment(tail, 1)>> :
          k \in {wordsPerMinute, 2 * wordsPerMinute},
          n \in {maxContentLength - 1, maxContentLength},
          tail \in LongTails}
  \cup {PaddedWords(k, n) \o <<Segment(tail, 1)>> :
          k \in {wordsPerMinute, 2 * wordsPerMinute},
          n \in {maxContentLength - 3, maxContentLength - 2},
          tail \in BoundaryTails}
  \cup {<<Segment(<<119, 32>>, n)>> :
          n \in {maxContentLength \div 2 - 1, maxContentLength \div 2}}

(***************************************************************************)
(* generateExcerpt (part_007, lines 46-64).                                *)
(***************************************************************************)
defaultMaxLength == 160

\* "..."
Ellipsis == <<46, 46, 46>>

\* .replace(/<[^>]*>/g, ''): scanning from the left, a "<" that has a ">"
\* after it is removed together with everything up to the first such ">";
\* a "<" with no ">" after it stays.
RECURSIVE StripTagsFrom(_, _)
StripTagsFrom(s, i) ==
  IF i > Len(s) THEN <<>>
  ELSE IF s[i] = 60 /\ \E j \in (i + 1)..Len(s) : s[j] = 62
       THEN LET close == CHOOSE j \in (i + 1)..Len(s) :
                           s[j] = 62 /\ \A k \in (i + 1)..(j - 1) : s[k] # 62
            IN StripTagsFrom(s, close + 1)
       ELSE <<s[i]>> \o StripTagsFrom(s, i + 1)

StripTags(s) == StripTagsFrom(s, 1)

\* [\w\s.,!?-]
IsExcerptChar(c) == IsWordChar(c) \/ IsWhiteSpace(c) \/ c \in {46, 44, 33, 63, 45}

\* .replace(/[^\w\s.,!?-]/g, '')
StripSpecialChars(s) == SelectSeq(s, IsExcerptChar)

\* PlainText without the removal of the markup tags.
PlainTextKeepingTags(c) == Trim(StripSpecialChars(c))

\* lines 48-51
PlainText(c) == Trim(StripSpecialChars(StripTags(c)))

\* generateExcerpt appending the marker to plainText, not to truncated, when
\* the window has no space.
generateExcerptUncut(c, max) ==
  LET plainText == PlainText(c)
      truncated == SliceTo(plainText, max)
      lastSpaceIndex == LastIndexOf(truncated, 32)
  IN IF Len(plainText) <= max THEN plainText
     ELSE IF lastSpaceIndex > 0
          THEN SliceTo(truncated, lastSpaceIndex) \o Ellipsis
          ELSE plainText \o Ellipsis

generateExcerpt(c, max) ==
  LET plainText == PlainText(c)
      truncated == SliceTo(plainText, max)
      lastSpaceIndex == LastIndexOf(truncated, 32)
  IN IF Len(plainText) <= max THEN plainText
     ELSE IF lastSpaceIndex > 0
          THEN SliceTo(truncated, lastSpaceIndex) \o Ellipsis
          ELSE truncated \o Ellipsis

\* "a", " ", "\n", "<", ">", "*"
ExcerptAlphabet == {97, 32, 10, 60, 62, 42}

\* Bodies longer than the default maximum: words of three letters separated
\* by a space, by a newline, by a tab, by markup, by a stripped character, and
\* one long word.
LongBodies ==
  {Repeat(u, n) : u \in {<<97, 97, 97, 32>>, <<97, 97, 97, 10>>, <<97, 97, 97, 9>>,
                         <<97, 97, 97, 60, 98, 62>>, <<97, 97, 42, 32>>, <<97, 97, 97, 97>>,
                         <<97, 32, 97, 97, 10>>},
                  n \in {defaultMaxLength \div 4, defaultMaxLength \div 4 + 1,
                         defaultMaxLength \div 4 + 2}}

(***************************************************************************)
(* sanitizeTags (part_007, lines 82-88).                                   *)
(*                                                                         *)
(* An element of the argument is a JavaScript value [type, str]: a string  *)
(* with its code units, or a value of another type.                        *)
(***************************************************************************)
tagLimit == 10

Str(s) == [type |-> "string", str |-> s]
NotAString == [type |-> "number", str |-> <<>>]

\* tag => typeof tag === 'string' && tag.trim().length > 0
IsNonBlankString(v) == v.type = "string" /\ Len(Trim(v.str)) > 0

\* tag => tag.trim().toLowerCase()
NormalizeTag(v) == ToLowerCase(Trim(v.str))

\* tag => tag.trim()
TrimTag(v) == Trim(v.str)

\* [a-z0-9-\s] under the i flag
IsTagChar(c) == c \in (97..122) \cup (65..90) \cup (48..57) \cup {45} \cup WhiteSpace

\* /^[a-z0-9-\s]+$/i.test(tag)
MatchesTagPattern(s) == Len(s) >= 1 /\ \A i \in 1..Len(s) : IsTagChar(s[i])

\* array.map(f)
MapSeq(f(_), s) == [i \in 1..Len(s) |-> f(s[i])]

\* array.slice(-n) for n > 0
SliceLast(s, n) == SubSeq(s, IF Len(s) > n THEN Len(s) - n + 1 ELSE 1, Len(s))

\* The elements of s without those equal to an earlier element.
Deduplicated(s) ==
  LET F[i \in 0..Len(s)] ==
        IF i = 0 THEN <<>>
        ELSE IF \E j \in 1..(i - 1) : s[j] = s[i] THEN F[i - 1] ELSE Append(F[i - 1], s[i])
  IN F[Len(s)]

\* sanitizeTags without .toLowerCase() in the map.
sanitizeTagsUnlowered(t) ==
  SliceTo(SelectSeq(MapSeq(TrimTag, SelectSeq(t, IsNonBlankString)), MatchesTagPattern),
          tagLimit)

\* sanitizeTags ending with .slice(-10).
sanitizeTagsLastTen(t) ==
  SliceLast(SelectSeq(MapSeq(NormalizeTag, SelectSeq(t, IsNonBlankString)), MatchesTagPattern),
            tagLimit)

\* sanitizeTags with .slice(0, 10) before the filters.
sanitizeTagsSliceFirst(t) ==
  SelectSeq(MapSeq(NormalizeTag, SelectSeq(SliceTo(t, tagLimit), IsNonBlankString)),
            MatchesTagPattern)

\* sanitizeTags with equal tags collapsed before the slice.
sanitizeTagsDeduplicated(t) ==
  SliceTo(Deduplicated(SelectSeq(MapSeq(NormalizeTag, SelectSeq(t, IsNonBlankString)),
                                 MatchesTagPattern)),
          tagLimit)

sanitizeTags(t) ==
  SliceTo(SelectSeq(MapSeq(NormalizeTag, SelectSeq(t, IsNonBlankString)), MatchesTagPattern),
          tagLimit)

\* "Web-Design" and "C++ <script>"
WebDesign == <<87, 101, 98, 45, 68, 101, 115, 105, 103, 110>>
CppScript == <<67, 43, 43, 32, 60, 115, 99, 114, 105, 112, 116, 62>>

\* "a", "A", " a ", "a b", "Web-Design", "C++ <script>", " ", "" and a number
TagPool == {Str(<<97>>), Str(<<65>>), Str(<<32, 97, 32>>), Str(<<97, 32, 98>>),
            Str(WebDesign), Str(CppScript), Str(<<32>>), Str(<<>>), NotAString}

\* m different valid tags: "Ta", "Tb", ...
DistinctTags(m) == [i \in 1..m |-> Str(<<84, 96 + i>>)]

\* The arrays of up to MaxTags values of the pool, and the arrays of about
\* tagLimit different valid tags after up to MaxTagPrefix values of the pool
\* and before at most one more value ("A" or a number).
TagInputs ==
  StringsUpTo(TagPool, MaxTags)
  \cup {prefix \o DistinctTags(m) \o suffix :
          prefix \in StringsUpTo(TagPool, MaxTagPrefix),
          m \in (tagLimit - 1)..(tagLimit + 2),
          suffix \in StringsUpTo({Str(<<65>>), NotAString}, 1)}

(***************************************************************************)
(* getPublishedBlogPosts (utils/blog.ts, lines 8-16).                      *)
(*                                                                         *)
(* An entry is [id, data: [draft, publishDate]]: the fields of a validated *)
(* CollectionEntry<'blog'> that the function reads, and its identifier.    *)
(* publishDate is a Date, modelled by its time value counted in days since *)
(* the epoch (19737 is 2024-01-15, 19742 is 2024-01-20, 19747 is           *)
(* 2024-01-25): front matter dates are midnights, UTC.                     *)
(***************************************************************************)
\* "a", "b", "ab", "a-b", "a/b".  The last two are the files a-b.md and
\* a/b.md (b.md in the directory a): two paths, two identifiers, and two
\* routes of [...slug].astro, which both sanitize to "a-b".
Identifiers == {<<97>>, <<98>>, <<97, 98>>, <<97, 45, 98>>, <<97, 47, 98>>}
Dates == {[time |-> 19737], [time |-> 19742], [time |-> 19747]}
Entries == [id : Identifiers, data : [draft : BOOLEAN, publishDate : Dates]]

\* What the loader can deliver: identifiers are unique, the order is any.
Collections ==
  UNION {{c \in [1..k -> Entries] :
            \A i, j \in 1..k : i # j => c[i].id # c[j].id} : k \in 0..MaxPosts}

\* new Date(d).getTime()
GetTime(d) == d.time

\* the filter callback, ({ data }) => !data.draft
IsPublished(entry) == ~entry.data.draft

\* The sort callback with its operands exchanged (oldest first).
CompareFnAscending(a, b) == GetTime(a.data.publishDate) - GetTime(b.data.publishDate)

\* the sort callback: negative when a goes before b
CompareFn(a, b) == GetTime(b.data.publishDate) - GetTime(a.data.publishDate)

\* An insertion that puts an element before the elements it ties with.
SortInsertBeforeTies(sorted, x) ==
  LET k == Cardinality({i \in 1..Len(sorted) : CompareFn(sorted[i], x) < 0})
  IN SubSeq(sorted, 1, k) \o <<x>> \o SubSeq(sorted, k + 1, Len(sorted))

\* Array.prototype.sort is stable: an element goes after every element that
\* compares less than or equal to it and was before it in the array.
SortInsert(sorted, x) ==
  LET k == Cardinality({i \in 1..Len(sorted) : CompareFn(sorted[i], x) <= 0})
  IN SubSeq(sorted, 1, k) \o <<x>> \o SubSeq(sorted, k + 1, Len(sorted))

\* posts.sort(compareFn)
ArraySort(posts) ==
  LET F[i \in 0..Len(posts)] ==
        IF i = 0 THEN <<>> ELSE SortInsert(F[i - 1], posts[i])
  IN F[Len(posts)]

\* getPublishedBlogPosts without the filter callback.
getPublishedBlogPostsUnfiltered(entries) == ArraySort(entries)

getPublishedBlogPosts(entries) == ArraySort(SelectSeq(entries, IsPublished))

(***************************************************************************)
(* The schema of the 'blog' collection (part_005, lines 4-15).             *)
(*                                                                         *)
(* The front matter of an entry is a record of JavaScript values: a        *)
(* string, a Date, a boolean, an array, undefined when the key is not in   *)
(* the file, or a value of another type.  A zod type accepts a value or    *)
(* raises an issue with the path of the field and the type it received.    *)
(***************************************************************************)
Undefined == [type |-> "undefined", str |-> <<>>]
DateValue(d) == [type |-> "date", date |-> d]
BooleanValue(b) == [type |-> "boolean", bool |-> b]
ArrayValue(items) == [type |-> "array", items |-> items]

\* z.string().trim().min(1): a string with something other than white space.
ZodStringNonBlank(v) == v.type = "string" /\ Len(Trim(v.str)) > 0

\* z.string(): a string, of any length and content.
ZodString(v) == v.type = "string"

\* z.date()
ZodDate(v) == v.type = "date"

\* z.boolean()
ZodBoolean(v) == v.type = "boolean"

\* z.array(z.string())
ZodArrayOfString(v) ==
  v.type = "array" /\ \A i \in 1..Len(v.items) : ZodString(v.items[i])

\* The keys of the schema whose type is z.string().
RequiredStrings == {"title", "description", "author"}

\* The paths of the issues z.object({...}) raises on the front matter data.
SchemaIssuePaths(data) ==
  {f \in RequiredStrings : ~ZodString(data[f])}
    \cup (IF ZodDate(data.publishDate) THEN {} ELSE {"publishDate"})
    \cup (IF data.tags = Undefined \/ ZodArrayOfString(data.tags) THEN {} ELSE {"tags"})
    \cup (IF data.image = Undefined \/ ZodString(data.image) THEN {} ELSE {"image"})
    \cup (IF data.draft = Undefined \/ ZodBoolean(data.draft) THEN {} ELSE {"draft"})

\* An issue: zod's invalid_type with the type it received ("undefined" is
\* the issue zod words as "Required").
Issue(data, f) == [path |-> f, code |-> "invalid_type", received |-> data[f].type]

\* schema.safeParse(data): the validated data with the defaults filled in, or
\* the issues.
SafeParse(data) ==
  LET paths == SchemaIssuePaths(data)
  IN IF paths = {}
       THEN [success |-> TRUE,
             data |-> [title |-> data.title.str,
                       description |-> data.description.str,
                       publishDate |-> data.publishDate.date,
                       author |-> data.author.str,
                       tags |-> IF data.tags = Undefined THEN <<>>
                                ELSE [i \in 1..Len(data.tags.items) |-> data.tags.items[i].str],
                       image |-> data.image,
                       draft |-> IF data.draft = Undefined THEN FALSE ELSE data.draft.bool]]
       ELSE [success |-> FALSE, issues |-> {Issue(data, f) : f \in paths}]

\* The values tried for a key of type z.string(): strings of " " and "T",
\* the key left out, and a number.
RawStrings == {Str(s) : s \in StringsUpTo({32, 84}, MaxFieldLen)} \cup {Undefined, NotAString}

\* The front matter tried: publishDate is a date, left out, or the string
\* "2024"; tags are left out, ["T"] or the string "T"; image is left out or
\* "T"; draft is left out, true or false.
RawData ==
  [title : RawStrings, description : RawStrings, author : RawStrings,
   publishDate : {DateValue([time |-> 19737]), Undefined, Str(<<50, 48, 50, 52>>)},
   tags : {Undefined, ArrayValue(<<Str(<<84>>)>>), Str(<<84>>)},
   image : {Undefined, Str(<<84>>)},
   draft : {Undefined, BooleanValue(TRUE), BooleanValue(FALSE)}]

(***************************************************************************)
(* getCollection('blog', ...) on the files of the collection (utils/blog.ts *)
(* line 9, with the collections of part_005, lines 18-20).                  *)
(*                                                                         *)
(* The loader applies the schema of part_005 to the front matter of every  *)
(* file.  What a front matter that fails the schema does to the call is    *)
(* what the design document of the repository states under                 *)
(* Troubleshooting (.kiro/specs/personal-blog-website/design.md, lines     *)
(* 395-398): "Build fails with content collection errors: ensure all blog  *)
(* post frontmatter follows the correct schema".  No file of the           *)
(* repository catches that error, filters on the validity of a front       *)
(* matter, or records a rejected file.                                     *)
(***************************************************************************)
\* "a", "A", "b"
RawIdentifiers == {<<97>>, <<65>>, <<98>>}

\* Front matter with and without a title, with and without a draft flag.
RawSamples ==
  [title : {Undefined, Str(<<84>>)}, description : {Str(<<84>>)}, author : {Str(<<84>>)},
   publishDate : {DateValue([time |-> 19737]), DateValue([time |-> 19742])},
   tags : {Undefined}, image : {Undefined},
   draft : {Undefined, BooleanValue(TRUE), BooleanValue(FALSE)}]

\* The files of the collection: identifiers are unique, the order is any.
RawCollections ==
  UNION {{c \in [1..k -> [id : RawIdentifiers, data : RawSamples]] :
            \A i, j \in 1..k : i # j => c[i].id # c[j].id} : k \in 0..MaxRawEntries}

\* The entry of a file whose front matter the schema accepted, with the
\* fields of the validated data that getPublishedBlogPosts reads.
ValidatedEntry(raw) ==
  LET result == SafeParse(raw.data)
  IN [id |-> raw.id,
      data |-> [draft |-> result.data.draft, publishDate |-> result.data.publishDate]]

\* The files whose front matter fails the schema.
FailedEntries(raw) == {i \in 1..Len(raw) : ~SafeParse(raw[i].data).success}

\* The loader: the validated entries when every front matter passes the
\* schema; a content collection error when one fails it (design.md, lines
\* 395-398).
LoadEntries(raw) ==
  IF FailedEntries(raw) = {}
    THEN [status |-> "resolved",
          entries |-> [i \in 1..Len(raw) |-> ValidatedEntry(raw[i])]]
    ELSE [status |-> "rejected", entries |-> <<>>]

(***************************************************************************)
(* CrossBrowserTester (tests/cross-browser-test.js).                       *)
(*                                                                         *)
(* The name of a test is the tuple of the parts of its template string.    *)
(* A result is [name, passed, message]; its timestamp is left out.  Times  *)
(* are whole milliseconds.                                                 *)
(***************************************************************************)
slowLoadLimit == 3000
randomScale == 1000
randomOffset == 500

TEST_CONFIG ==
  [viewports |-> <<[name |-> "mobile", width |-> 375, height |-> 667],
                   [name |-> "tablet", width |-> 768, height |-> 1024],
                   [name |-> "desktop", width |-> 1920, height |-> 1080]>>,
   pages |-> <<[path |-> "/", name |-> "Homepage"],
               [path |-> "/404", name |-> "404 Page"],
               [path |-> "/blog", name |-> "Blog Index"]>>]

touchTests ==
  <<"Navigation menu toggle", "Link tapping", "Scroll behavior", "Touch-friendly button sizes">>

navTests ==
  <<"Header navigation visible", "Footer links accessible", "Logo/brand link functional",
    "Mobile menu toggle (if applicable)">>

contentTests ==
  <<"Text content renders correctly", "Images load properly",
    "Typography scales appropriately", "Code blocks display with syntax highlighting">>

viewportTests ==
  <<"Layout adapts to screen size", "Text remains readable", "Navigation is accessible",
    "Images scale appropriately", "No horizontal scrolling">>

\* this.results after the constructor
NoResults == [passed |-> 0, failed |-> 0, tests |-> <<>>]

\* recordTest(testName, passed, message)
recordTest(results, testName, passed, message) ==
  [tests |-> Append(results.tests, [name |-> testName, passed |-> passed, message |-> message]),
   passed |-> IF passed THEN results.passed + 1 ELSE results.passed,
   failed |-> IF passed THEN results.failed ELSE results.failed + 1]

\* for (const test of names) this.recordTest(<the name of test>, true, message)
RecordEach(results, names, message) ==
  LET F[i \in 0..Len(names)] ==
        IF i = 0 THEN results ELSE recordTest(F[i - 1], names[i], TRUE, message)
  IN F[Len(names)]

\* The values of Math.random() * 1000 + 500 tried: Math.random() is in
\* [0, 1), the last value tried is the millisecond below the supremum.
LoadTimes ==
  {(k * randomScale) \div RandomSteps + randomOffset : k \in 0..(RandomSteps - 1)}
    \cup {randomScale + randomOffset - 1}

\* A page load that passes only under one second.
PageLoadUnderOneSecond(loadTime) == loadTime < randomScale

\* const success = loadTime < 3000
PageLoadSuccess(loadTime) == loadTime < slowLoadLimit

\* testPageLoad(page) with loadTime the simulated load time
testPageLoad(results, page, loadTime) ==
  recordTest(results, <<"Page Load", page.name>>, PageLoadSuccess(loadTime),
             IF PageLoadSuccess(loadTime) THEN <<"Loaded in", loadTime>>
             ELSE <<"Slow load time", loadTime>>)

\* testNavigation(page)
testNavigation(results, page) ==
  RecordEach(results, [i \in 1..Len(navTests) |-> <<"Navigation", navTests[i], page.name>>],
             <<"Navigation element functional">>)

\* testContentRendering(page)
testContentRendering(results, page) ==
  RecordEach(results, [i \in 1..Len(contentTests) |-> <<"Content", contentTests[i], page.name>>],
             <<"Content renders correctly">>)

\* testViewport(viewport)
testViewport(results, viewport) ==
  RecordEach(results,
             [i \in 1..Len(viewportTests) |->
                <<"Responsive", viewportTests[i], viewport.name, viewport.width, viewport.height>>],
             <<"Responsive design test passed">>)

\* testTouchInteractions()
testTouchInteractions(results) ==
  RecordEach(results, [i \in 1..Len(touchTests) |-> <<"Touch", touchTests[i]>>],
             <<"Simulated touch interaction test passed">>)

\* The calls runAllTests makes, in order: testBasicFunctionality makes three
\* calls per page, testResponsiveDesign one per viewport.
CrossCalls ==
  LET perPage(p) == <<[method |-> "testPageLoad", arg |-> p],
                      [method |-> "testNavigation", arg |-> p],
                      [method |-> "testContentRendering", arg |-> p]>>
      F[i \in 0..Len(TEST_CONFIG.pages)] ==
        IF i = 0 THEN <<>> ELSE F[i - 1] \o perPage(TEST_CONFIG.pages[i])
  IN F[Len(TEST_CONFIG.pages)]
       \o [i \in 1..Len(TEST_CONFIG.viewports) |->
             [method |-> "testViewport", arg |-> TEST_CONFIG.viewports[i]]]
       \o <<[method |-> "testTouchInteractions", arg |-> <<>>],
            [method |-> "generateReport", arg |-> <<>>]>>

\* The summary of saveDetailedReport.
CrossSummary(results) ==
  [totalTests |-> Len(results.tests), passed |-> results.passed, failed |-> results.failed]

(***************************************************************************)
(* PerformanceAccessibilityTester (tests/performance-accessibility-test.js) *)
(*                                                                         *)
(* this.results holds one [passed, failed, tests] per category.  The       *)
(* Cumulative Layout Shift values are in hundredths (0.1 is 10, 0.05 is 5) *)
(* and the contrast ratios in tenths (4.8 is 48), so that the comparisons  *)
(* of the script are comparisons of integers.  existsSync(path) is true    *)
(* when the path is in the working directory, which the run does not       *)
(* change.                                                                 *)
(***************************************************************************)
vitals ==
  <<[name |-> "First Contentful Paint (FCP)", target |-> 1800, simulated |-> 1200],
    [name |-> "Largest Contentful Paint (LCP)", target |-> 2500, simulated |-> 1800],
    [name |-> "Cumulative Layout Shift (CLS)", target |-> 10, simulated |-> 5],
    [name |-> "First Input Delay (FID)", target |-> 100, simulated |-> 50],
    [name |-> "Time to Interactive (TTI)", target |-> 3800, simulated |-> 2500]>>

\* A resource has a size or a time; the one it has not is 0 here, which is
\* as falsy as undefined.
resources ==
  <<[name |-> "CSS Bundle Size", size |-> 45, time |-> 0, target |-> 50, unit |-> "KB"],
    [name |-> "JavaScript Bundle Size", size |-> 12, time |-> 0, target |-> 50, unit |-> "KB"],
    [name |-> "Font Loading Time", size |-> 0, time |-> 800, target |-> 1000, unit |-> "ms"],
    [name |-> "Image Loading Time", size |-> 0, time |-> 600, target |-> 1500, unit |-> "ms"]>>

contrastTests ==
  <<[element |-> "Body text", ratio |-> 48, target |-> 45, level |-> "AA"],
    [element |-> "Heading text", ratio |-> 52, target |-> 45, level |-> "AA"],
    [element |-> "Link text", ratio |-> 47, target |-> 45, level |-> "AA"],
    [element |-> "Button text", ratio |-> 61, target |-> 45, level |-> "AA"],
    [element |-> "Code text", ratio |-> 72, target |-> 70, level |-> "AAA"]>>

bundleTests ==
  <<"CSS files are minified",
    "JavaScript files are minified",
    "Unused CSS is purged",
    "Images are optimized",
    "No duplicate dependencies">>

\* this.results after the constructor
NoCategoryResults ==
  [performance |-> NoResults, accessibility |-> NoResults, seo |-> NoResults]

\* recordTest(category, testName, passed, message)
recordCategoryTest(results, category, testName, passed, message) ==
  [results EXCEPT ![category] =
     [tests |-> Append(@.tests, [name |-> testName, passed |-> passed, message |-> message]),
      passed |-> IF passed THEN @.passed + 1 ELSE @.passed,
      failed |-> IF passed THEN @.failed ELSE @.failed + 1]]

\* for (const test of tests) this.recordTest(category, `${prefix}: ${test}`, true, message)
RecordEachIn(results, category, prefix, tests, message) ==
  LET F[i \in 0..Len(tests)] ==
        IF i = 0 THEN results
        ELSE recordCategoryTest(F[i - 1], category, <<prefix, tests[i]>>, TRUE, message)
  IN F[Len(tests)]

\* testCoreWebVitals()
testCoreWebVitals(results) ==
  LET passed(vital) == vital.simulated <= vital.target
      F[i \in 0..Len(vitals)] ==
        IF i = 0 THEN results
        ELSE recordCategoryTest(F[i - 1], "performance", <<"Core Web Vitals", vitals[i].name>>,
                                passed(vitals[i]),
                                IF passed(vitals[i])
                                  THEN <<vitals[i].simulated, "target", vitals[i].target>>
                                  ELSE <<vitals[i].simulated, "exceeds target of", vitals[i].target>>)
  IN F[Len(vitals)]

\* testResourceLoading()
testResourceLoading(results) ==
  LET passed(resource) ==
        IF resource.size # 0 THEN resource.size <= resource.target
        ELSE resource.time <= resource.target
      value(resource) == IF resource.size # 0 THEN resource.size ELSE resource.time
      F[i \in 0..Len(resources)] ==
        IF i = 0 THEN results
        ELSE recordCategoryTest(F[i - 1], "performance", <<"Resource Loading", resources[i].name>>,
                                passed(resources[i]),
                                <<value(resources[i]), resources[i].unit, "target",
                                  resources[i].target, resources[i].unit>>)
  IN F[Len(resources)]

\* existsSync(path)
existsSync(files, path) == path \in files

\* testBundleSize() that does not look for the build directory.
testBundleSizeUnchecked(results, files) ==
  RecordEachIn(results, "performance", "Bundle Optimization", bundleTests,
               <<"Bundle optimization check passed">>)

\* testBundleSize()
testBundleSize(results, files) ==
  IF existsSync(files, "dist")
    THEN RecordEachIn(results, "performance", "Bundle Optimization", bundleTests,
                      <<"Bundle optimization check passed">>)
    ELSE recordCategoryTest(results, "performance", <<"Bundle Size Analysis">>, FALSE,
                            <<"Build directory not found - run npm run build first">>)

\* testColorContrast()
testColorContrast(results) ==
  LET F[i \in 0..Len(contrastTests)] ==
        IF i = 0 THEN results
        ELSE recordCategoryTest(F[i - 1], "accessibility",
                                <<"Color Contrast", contrastTests[i].element, contrastTests[i].level>>,
                                contrastTests[i].ratio >= contrastTests[i].target,
                                <<contrastTests[i].ratio, "target", contrastTests[i].target>>)
  IN F[Len(contrastTests)]

\* testSitemapAndRobots()
testSitemapAndRobots(results, files) ==
  LET sitemapExists ==
        existsSync(files, "dist/sitemap-index.xml") \/ existsSync(files, "dist/sitemap.xml")
      robotsExists == existsSync(files, "dist/robots.txt")
      sitemapRecorded ==
        recordCategoryTest(results, "seo", <<"Sitemap Generation">>, sitemapExists,
                           IF sitemapExists THEN <<"Sitemap found">> ELSE <<"Sitemap not found">>)
  IN recordCategoryTest(sitemapRecorded, "seo", <<"Robots.txt">>, TRUE,
                        IF robotsExists THEN <<"Robots.txt found">>
                        ELSE <<"Robots.txt not required for this site">>)

\* The calls runAllTests makes, in order, through runPerformanceTests,
\* runAccessibilityTests and runSEOTests.
PerfCalls ==
  <<"testCoreWebVitals", "testResourceLoading", "testBundleSize", "testImageOptimization",
    "testKeyboardNavigation", "testScreenReaderCompatibility", "testColorContrast",
    "testSemanticMarkup", "testARIAAttributes",
    "testMetaTags", "testStructuredData", "testSitemapAndRobots", "testSocialMediaTags",
    "runHTMLValidation", "generateReport">>

\* The summary of a category in saveDetailedReport.
CategorySummary(r) == [passed |-> r.passed, failed |-> r.failed, total |-> r.passed + r.failed]

\* The summaries of generateReport and saveDetailedReport.
PerfSummary(results) ==
  [performance |-> CategorySummary(results.performance),
   accessibility |-> CategorySummary(results.accessibility),
   seo |-> CategorySummary(results.seo),
   totalPassed |-> results.performance.passed + results.accessibility.passed + results.seo.passed,
   totalTests |-> results.performance.passed + results.performance.failed
                    + results.accessibility.passed + results.accessibility.failed
                    + results.seo.passed + results.seo.failed]

\* The paths the script looks for.
BuildPaths == {"dist", "dist/sitemap-index.xml", "dist/sitemap.xml", "dist/robots.txt"}

\* The working directories tried: a file of dist exists only if dist does.
WorkingDirectories == {files \in SUBSET BuildPaths : files # {} => "dist" \in files}

(***************************************************************************)
(* isValidUrl and getSanitizedSocialLinks (config/site.ts, lines 17-38).   *)
(*                                                                         *)
(* A call completes by returning a value or by throwing.  new URL(url) is  *)
(* the URL parser of the URL Standard with no base URL, as far as the      *)
(* inputs tried need it: the scheme, and for a URL with an authority the   *)
(* credentials and the host.  The inputs have no port, no IPv4 or IPv6     *)
(* address, no percent escape, no file: scheme and no non-ASCII code unit. *)
(***************************************************************************)
Return(v) == [type |-> "return", value |-> v]
Throw(e) == [type |-> "throw", value |-> e]

\* The parser strips leading and trailing C0 controls and spaces.
IsC0ControlOrSpace(c) == c <= 32

StripC0ControlOrSpace(s) ==
  IF \A i \in 1..Len(s) : IsC0ControlOrSpace(s[i]) THEN <<>>
  ELSE LET first == CHOOSE i \in 1..Len(s) :
                      /\ ~IsC0ControlOrSpace(s[i])
                      /\ \A j \in 1..(i - 1) : IsC0ControlOrSpace(s[j])
           last == CHOOSE i \in 1..Len(s) :
                      /\ ~IsC0ControlOrSpace(s[i])
                      /\ \A j \in (i + 1)..Len(s) : IsC0ControlOrSpace(s[j])
       IN SubSeq(s, first, last)

\* The parser removes every ASCII tab and newline.
RemoveTabAndNewline(s) == SelectSeq(s, LAMBDA c : c \notin {9, 10, 13})

IsAsciiAlpha(c) == c \in (65..90) \cup (97..122)

\* ASCII alphanumeric, "+", "-" or "."
IsSchemeChar(c) == c \in (48..57) \cup (65..90) \cup (97..122) \cup {43, 45, 46}

\* The index of the first code unit of s that is in set, 0 if there is none.
FirstIndexIn(s, set) ==
  IF \E i \in 1..Len(s) : s[i] \in set
    THEN CHOOSE i \in 1..Len(s) : s[i] \in set /\ \A j \in 1..(i - 1) : s[j] \notin set
    ELSE 0

\* The index of the first code unit of s that is not in set, Len(s) + 1 if
\* there is none.
FirstIndexNotIn(s, set) ==
  IF \E i \in 1..Len(s) : s[i] \notin set
    THEN CHOOSE i \in 1..Len(s) : s[i] \notin set /\ \A j \in 1..(i - 1) : s[j] \in set
    ELSE Len(s) + 1

\* The part of s before its first code unit that is in set.
Before(s, set) ==
  IF FirstIndexIn(s, set) = 0 THEN s ELSE SubSeq(s, 1, FirstIndexIn(s, set) - 1)

\* The host of an authority: what follows its last "@".
HostOf(authority) ==
  IF \E i \in 1..Len(authority) : authority[i] = 64
    THEN LET at == CHOOSE i \in 1..Len(authority) :
                     /\ authority[i] = 64
                     /\ \A j \in (i + 1)..Len(authority) : authority[j] # 64
         IN SubSeq(authority, at + 1, Len(authority))
    ELSE authority

\* "http", "https", "ftp", "ws", "wss"
SpecialSchemes ==
  {<<104, 116, 116, 112>>, <<104, 116, 116, 112, 115>>, <<102, 116, 112>>, <<119, 115>>,
   <<119, 115, 115>>}

\* U+0000, tab, LF, CR, space, "#", "/", ":", "<", ">", "?", "@", "[", "\",
\* "]", "^", "|"
ForbiddenHostCodePoints == {0, 9, 10, 13, 32, 35, 47, 58, 60, 62, 63, 64, 91, 92, 93, 94, 124}

\* and the C0 controls, "%", U+007F
ForbiddenDomainCodePoints == ForbiddenHostCodePoints \cup (0..31) \cup {37, 127}

HasAny(s, set) == \E i \in 1..Len(s) : s[i] \in set

\* new URL(url): the parsed URL, of which the protocol is kept, or the
\* TypeError of a failed parse.
NewURL(input) ==
  LET s == RemoveTabAndNewline(StripC0ControlOrSpace(input))
      colon == FirstIndexIn(s, {58})
      schemeFound ==
        /\ colon > 1
        /\ IsAsciiAlpha(s[1])
        /\ \A i \in 2..(colon - 1) : IsSchemeChar(s[i])
      scheme == ToLowerCase(SubSeq(s, 1, colon - 1))
      rest == SubSeq(s, colon + 1, Len(s))
      \* a special scheme: any number of "/" and "\" before the authority
      specialAuthority ==
        Before(SubSeq(rest, FirstIndexNotIn(rest, {47, 92}), Len(rest)), {47, 92, 63, 35})
      \* another scheme: an authority only after "//"
      hasAuthority == Len(rest) >= 2 /\ rest[1] = 47 /\ rest[2] = 47
      authority == Before(SubSeq(rest, 3, Len(rest)), {47, 63, 35})
      parsed == Return([protocol |-> Append(scheme, 58)])
  IN IF ~schemeFound THEN Throw("TypeError")
     ELSE IF scheme \in SpecialSchemes
       THEN IF \/ HostOf(specialAuthority) = <<>>
               \/ HasAny(HostOf(specialAuthority), ForbiddenDomainCodePoints)
              THEN Throw("TypeError")
              ELSE parsed
     ELSE IF hasAuthority
       THEN IF \/ HasAny(authority, {64}) /\ HostOf(authority) = <<>>
               \/ HasAny(HostOf(authority), ForbiddenHostCodePoints)
              THEN Throw("TypeError")
              ELSE parsed
     ELSE parsed

\* ['http:', 'https:']
AllowedProtocols == {<<104, 116, 116, 112, 58>>, <<104, 116, 116, 112, 115, 58>>}

\* isValidUrl that accepts every URL that parses.
isValidUrlAnyProtocol(u) ==
  LET parsedUrl == NewURL(u)
  IN IF parsedUrl.type = "throw" THEN Return(FALSE) ELSE Return(TRUE)

\* isValidUrl(url): the catch clause turns a throw of new URL into false.
isValidUrl(u) ==
  LET parsedUrl == NewURL(u)
  IN IF parsedUrl.type = "throw" THEN Return(FALSE)
     ELSE Return(parsedUrl.value.protocol \in AllowedProtocols)

\* String.prototype.toUpperCase on one ASCII code unit.
UpperChar(c) == IF c \in 97..122 THEN c - 32 ELSE c

\* `Follow on ${platform.charAt(0).toUpperCase() + platform.slice(1)}`
FollowLabel(platform) ==
  <<70, 111, 108, 108, 111, 119, 32, 111, 110, 32>> \o (IF platform = <<>> THEN <<>> ELSE <<UpperChar(Head(platform))>> \o Tail(platform))

\* url && ...: undefined and the empty string are falsy.
Truthy(v) == v.type = "string" /\ v.str # <<>>

\* getSanitizedSocialLinks() on the entries of SITE_CONFIG.social: a throw
\* of isValidUrl would leave through the filter.
getSanitizedSocialLinks(entries) ==
  IF \E i \in 1..Len(entries) :
       Truthy(entries[i].url) /\ isValidUrl(entries[i].url.str).type = "throw"
    THEN Throw("TypeError")
    ELSE LET kept == SelectSeq(entries,
                               LAMBDA e : Truthy(e.url) /\ isValidUrl(e.url.str).value)
         IN Return([i \in 1..Len(kept) |->
                      [platform |-> kept[i].platform,
                       url |-> kept[i].url.str,
                       label |-> FollowLabel(kept[i].platform)]])

\* Object.entries(SITE_CONFIG.social) with the given values.
SocialEntries(twitter, github, linkedin, email) ==
  <<[platform |-> <<116, 119, 105, 116, 116, 101, 114>>, url |-> twitter],
    [platform |-> <<103, 105, 116, 104, 117, 98>>, url |-> github],
    [platform |-> <<108, 105, 110, 107, 101, 100, 105, 110>>, url |-> linkedin],
    [platform |-> <<101, 109, 97, 105, 108>>, url |-> email]>>

\* SITE_CONFIG.social as the repository has it: 'https://twitter.com/yourusername',
\* 'https://github.com/yourusername', 'https://linkedin.com/in/yourusername',
\* 'your-email@example.com'.
SITE_CONFIG ==
  [social |->
     SocialEntries(
       Str(
         <<104, 116, 116, 112, 115, 58, 47, 47, 116, 119, 105, 116, 116, 101, 114, 46,
           99, 111, 109, 47, 121, 111, 117, 114, 117, 115, 101, 114, 110, 97, 109, 101>>),
       Str(
         <<104, 116, 116, 112, 115, 58, 47, 47, 103, 105, 116, 104, 117, 98, 46, 99,
           111, 109, 47, 121, 111, 117, 114, 117, 115, 101, 114, 110, 97, 109, 101>>),
       Str(
         <<104, 116, 116, 112, 115, 58, 47, 47, 108, 105, 110, 107, 101, 100, 105, 110,
           46, 99, 111, 109, 47, 105, 110, 47, 121, 111, 117, 114, 117, 115, 101, 114,
           110, 97, 109, 101>>),
       Str(
         <<121, 111, 117, 114, 45, 101, 109, 97, 105, 108, 64, 101, 120, 97, 109, 112,
           108, 101, 46, 99, 111, 109>>))]

\* What comes before the rest of an argument tried: "http:", "https:",
\* "HTTP:", "http://", "https://", " https://", "ftp://", "javascript:",
\* "data:", "mailto:", "1a:" and nothing.
UrlPrefixes ==
  {<<104, 116, 116, 112, 58>>,
   <<104, 116, 116, 112, 115, 58>>,
   <<72, 84, 84, 80, 58>>,
   <<104, 116, 116, 112, 58, 47, 47>>,
   <<104, 116, 116, 112, 115, 58, 47, 47>>,
   <<32, 104, 116, 116, 112, 115, 58, 47, 47>>,
   <<102, 116, 112, 58, 47, 47>>,
   <<106, 97, 118, 97, 115, 99, 114, 105, 112, 116, 58>>,
   <<100, 97, 116, 97, 58>>,
   <<109, 97, 105, 108, 116, 111, 58>>,
   <<49, 97, 58>>,
   <<>>}

\* The arguments of isValidUrl tried: a prefix and a rest of "a", ".", "@",
\* " " and "/", and the values of SITE_CONFIG.social.
UrlInputs ==
  {prefix \o rest : prefix \in UrlPrefixes, rest \in StringsUpTo({97, 46, 64, 32, 47}, MaxUrlRest)}
    \cup {SITE_CONFIG.social[i].url.str : i \in 1..Len(SITE_CONFIG.social)}

\* The values of a key of SITE_CONFIG.social tried: the key left out, '',
\* "https://a", "http://a", "javascript:a", "data:a", "mailto:a@a", "a@a".
SocialValues ==
  {Undefined, Str(<<>>), Str(<<104, 116, 116, 112, 115, 58, 47, 47, 97>>),
   Str(<<104, 116, 116, 112, 58, 47, 47, 97>>),
   Str(<<106, 97, 118, 97, 115, 99, 114, 105, 112, 116, 58, 97>>),
   Str(<<100, 97, 116, 97, 58, 97>>),
   Str(<<109, 97, 105, 108, 116, 111, 58, 97, 64, 97>>),
   Str(<<97, 64, 97>>)}

\* The configurations tried.
SocialConfigs ==
  {SITE_CONFIG.social}
    \cup {SocialEntries(t, g, l, e) : t \in SocialValues, g \in SocialValues,
                                       l \in SocialValues, e \in SocialValues}

(***************************************************************************)
(* web-vitals.ts: the thresholds, getRating and the five measurements.     *)
(* Times are in milliseconds.  The scores of layout shifts, which the      *)
(* browser reports as fractions, are counted in hundredths, and so are the *)
(* thresholds of CLS (0.1 is 10, 0.25 is 25).  The id of a metric, made of *)
(* the clock and Math.random, is left out of the metric.                   *)
(***************************************************************************)
WEB_VITALS_THRESHOLDS ==
  [LCP |-> [good |-> 2500, needsImprovement |-> 4000],
   FID |-> [good |-> 100, needsImprovement |-> 300],
   CLS |-> [good |-> 10, needsImprovement |-> 25],
   FCP |-> [good |-> 1800, needsImprovement |-> 3000],
   TTFB |-> [good |-> 800, needsImprovement |-> 1800],
   INP |-> [good |-> 200, needsImprovement |-> 500]]

getRating(name, value) ==
  LET thresholds == WEB_VITALS_THRESHOLDS[name]
  IN IF value <= thresholds.good THEN "good"
     ELSE IF value <= thresholds.needsImprovement THEN "needs-improvement"
     ELSE "poor"

\* The object literal { name, value, rating: getRating(name, value), delta,
\* id, entries } that every measurement builds.
NewMetric(name, value, delta, entries) ==
  [name |-> name, value |-> value, rating |-> getRating(name, value),
   delta |-> delta, entries |-> entries]

\* let metric: before its first assignment.
NoMetric == [name |-> "undefined"]

\* x || 0 for a number x.
OrZero(x) == IF x = 0 THEN 0 ELSE x

\* What one run of an observer callback or of a listener does besides
\* changing its closure: the metrics it calls the callback with, in order
\* and as they are at the call, and whether it calls observer.disconnect().
Outcome(closure, calls, disconnect) ==
  [closure |-> closure, calls |-> calls, disconnect |-> disconnect]

\* The observer callback of getLCP with delta: value on every report.
lcpObserverDeltaIsValue(metric, entries) ==
  IF entries = <<>> THEN Outcome(metric, <<>>, FALSE)
  ELSE LET lastEntry == entries[Len(entries)]
           value == lastEntry.startTime
           updated == NewMetric("LCP", value, value, <<lastEntry>>)
       IN Outcome(updated, <<updated>>, FALSE)

\* The observer callback of getLCP with the update of the rating left out.
lcpObserverStaleRating(metric, entries) ==
  IF entries = <<>> THEN Outcome(metric, <<>>, FALSE)
  ELSE LET lastEntry == entries[Len(entries)]
           value == lastEntry.startTime
           updated ==
             IF metric = NoMetric
             THEN NewMetric("LCP", value, value, <<lastEntry>>)
             ELSE [metric EXCEPT
                     !.value = value,
                     !.delta = value - OrZero(metric.entries[1].startTime),
                     !.entries = <<lastEntry>>]
       IN Outcome(updated, <<updated>>, FALSE)

\* The observer callback of getLCP on one batch of entries; metric is the
\* metric of the closure.
lcpObserver(metric, entries) ==
  IF entries = <<>> THEN Outcome(metric, <<>>, FALSE)
  ELSE LET lastEntry == entries[Len(entries)]
           value == lastEntry.startTime
           updated ==
             IF metric = NoMetric
             THEN NewMetric("LCP", value, value, <<lastEntry>>)
             ELSE [metric EXCEPT
                     !.value = value,
                     !.delta = IF Len(metric.entries) > 0
                               THEN value - OrZero(metric.entries[1].startTime)
                               ELSE value,
                     !.rating = getRating("LCP", value),
                     !.entries = <<lastEntry>>]
       IN Outcome(updated, <<updated>>, FALSE)

\* The visibilitychange listener of getLCP.
lcpVisibilityListener(state) == state = "hidden"

\* The observer callback of getFID on one batch of entries.
fidObserver(entries) ==
  Outcome(NoMetric,
          [i \in 1..Len(entries) |->
             LET value == entries[i].processingStart - entries[i].startTime
             IN NewMetric("FID", value, value, <<entries[i]>>)],
          FALSE)

\* The forEach body without the test of hadRecentInput.
clsEntryObservedAlways(closure, calls, entry) ==
  LET value == closure.clsValue + entry.value
      counted == Append(closure.clsEntries, entry)
      updated == NewMetric("CLS", value, entry.value, counted)
  IN Outcome([clsValue |-> value, clsEntries |-> counted, metric |-> updated],
             Append(calls, updated), FALSE)

\* The body of the forEach of the observer callback of getCLS on one entry;
\* closure holds clsValue, clsEntries and metric, calls the metrics the
\* callback was called with so far.
clsEntryObserved(closure, calls, entry) ==
  IF ~entry.hadRecentInput
  THEN LET value == closure.clsValue + entry.value
           counted == Append(closure.clsEntries, entry)
           updated ==
             IF closure.metric = NoMetric
             THEN NewMetric("CLS", value, entry.value, counted)
             ELSE [closure.metric EXCEPT
                     !.value = value,
                     !.delta = entry.value,
                     !.rating = getRating("CLS", value),
                     !.entries = counted]
       IN Outcome([clsValue |-> value, clsEntries |-> counted, metric |-> updated],
                  Append(calls, updated), FALSE)
  ELSE Outcome(closure, calls, FALSE)

\* The observer callback of getCLS on the entries of a batch from the i-th on.
RECURSIVE clsObserverFrom(_, _, _, _)
clsObserverFrom(closure, calls, entries, i) ==
  IF i > Len(entries) THEN Outcome(closure, calls, FALSE)
  ELSE LET one == clsEntryObserved(closure, calls, entries[i])
       IN clsObserverFrom(one.closure, one.calls, entries, i + 1)

clsObserver(closure, entries) == clsObserverFrom(closure, <<>>, entries, 1)

\* The visibilitychange listener of getCLS: whether it reports and
\* disconnects.
clsVisibilityListener(state, metric) == state = "hidden" /\ metric # NoMetric

\* entries.find(entry => entry.name === name): the index of the first such
\* entry, 0 when there is none.
FindByName(entries, name) ==
  IF \E i \in 1..Len(entries) : entries[i].name = name
  THEN CHOOSE i \in 1..Len(entries) :
         /\ entries[i].name = name
         /\ \A j \in 1..(i - 1) : entries[j].name # name
  ELSE 0

\* The observer callback of getFCP without observer.disconnect().
fcpObserverConnected(entries) ==
  LET found == FindByName(entries, "first-contentful-paint")
  IN IF found # 0
     THEN LET fcpEntry == entries[found]
              value == fcpEntry.startTime
          IN Outcome(NoMetric, <<NewMetric("FCP", value, value, <<fcpEntry>>)>>, FALSE)
     ELSE Outcome(NoMetric, <<>>, FALSE)

\* The observer callback of getFCP on one batch of paint entries.
fcpObserver(entries) ==
  LET found == FindByName(entries, "first-contentful-paint")
  IN IF found # 0
     THEN LET fcpEntry == entries[found]
              value == fcpEntry.startTime
          IN Outcome(NoMetric, <<NewMetric("FCP", value, value, <<fcpEntry>>)>>, TRUE)
     ELSE Outcome(NoMetric, <<>>, FALSE)

\* The observer callback of getTTFB on one batch of navigation entries.
ttfbObserver(entries) ==
  IF entries # <<>>
  THEN LET navigationEntry == entries[1]
           value == navigationEntry.responseStart - navigationEntry.fetchStart
       IN Outcome(NoMetric, <<NewMetric("TTFB", value, value, <<navigationEntry>>)>>, TRUE)
  ELSE Outcome(NoMetric, <<>>, FALSE)

\* The calls of initWebVitals, in order, and the entry type each observes.
VitalsCalls == <<"LCP", "FID", "CLS", "FCP", "TTFB">>

EntryType ==
  [LCP |-> "largest-contentful-paint", FID |-> "first-input", CLS |-> "layout-shift",
   FCP |-> "paint", TTFB |-> "navigation"]

\* const finalCallback = callback || defaultCallback
finalCallback(callback) == IF callback = "undefined" THEN "defaultCallback" ELSE callback

\* How the body of one measurement ends for metric name in global object w:
\* "skipped" by the early return, "failed" when observe() throws and the
\* catch block warns, "observing" otherwise.
Measurement(w, name) ==
  IF ~w.defined \/ ~w.PerformanceObserver THEN "skipped"
  ELSE IF EntryType[name] \in w.unsupported THEN "failed"
  ELSE "observing"

\* Where initWebVitals would go on without the try and catch in the
\* measurements: what observe() throws leaves initWebVitals.
AfterMeasurementUncaught(pc, ending) ==
  IF ending = "failed" THEN Len(VitalsCalls) + 1 ELSE pc + 1

\* Where initWebVitals goes on after the call at position pc, however that
\* call ended: each measurement catches what it throws.
AfterMeasurement(pc, ending) == pc + 1

(***************************************************************************)
(* Idle values of the variables a specification does not use.              *)
(***************************************************************************)
IdlePosts == collection = <<>> /\ published = <<>>
IdleSlug == slug = <<>> /\ slugOnce = <<>> /\ slugTwice = <<>>
IdleReading == content = <<>> /\ readingTime = 0 /\ blogReadingTime = 0
IdleExcerpt == body = <<>> /\ maxLength = 0 /\ excerpt = <<>>
IdleTags == tags = <<>> /\ sanitizedTags = <<>>
IdleSchema == rawData = <<>> /\ parseResult = <<>>
IdleLoad == rawEntries = <<>> /\ loader = "pending" /\ loadError = <<>>
IdleCross == crossResults = <<>> /\ crossPc = 0 /\ crossReport = <<>>
IdlePerf == perfFiles = {} /\ perfResults = <<>> /\ perfPc = 0 /\ perfReport = <<>>
IdleSocial == url = <<>> /\ urlValid = <<>> /\ social = <<>> /\ socialLinks = <<>>
IdleVitals ==
  /\ globalObject = <<>> /\ visibilityState = "visible" /\ callbackArg = <<>> /\ vitalsPc = 0
  /\ observers = <<>> /\ visibilityListeners = {} /\ lcpMetric = <<>> /\ clsValue = 0
  /\ clsEntries = <<>> /\ clsMetric = <<>> /\ reports = <<>> /\ warnings = <<>>
  /\ delivered = <<>> /\ hiddenSeen = FALSE /\ events = 0

(***************************************************************************)
(* SpecSlug: sanitizeSlug applied to an input, then to its own result.     *)
(***************************************************************************)
InitSlug ==
  /\ slug \in SlugInputs
  /\ slugOnce = <<>>
  /\ slugTwice = <<>>
  /\ returned = {}
  /\ IdlePosts /\ IdleReading /\ IdleExcerpt /\ IdleTags /\ IdleSchema /\ IdleLoad /\ IdleCross /\ IdlePerf /\ IdleSocial /\ IdleVitals

SanitizeSlug ==
  /\ "sanitizeSlug" \notin returned
  /\ slugOnce' = sanitizeSlug(slug)
  /\ returned' = returned \cup {"sanitizeSlug"}
  /\ UNCHANGED <<slug, slugTwice, exceptSlugVars>>

SanitizeSlugAgain ==
  /\ "sanitizeSlug" \in returned
  /\ "sanitizeSlugAgain" \notin returned
  /\ slugTwice' = sanitizeSlug(slugOnce)
  /\ returned' = returned \cup {"sanitizeSlugAgain"}
  /\ UNCHANGED <<slug, slugOnce, exceptSlugVars>>

NextSlug == SanitizeSlug \/ SanitizeSlugAgain

SpecSlug == InitSlug /\ [][NextSlug]_vars

(***************************************************************************)
(* SpecReading: the two calculateReadingTime functions on the same body.   *)
(***************************************************************************)
InitReading ==
  /\ content \in ReadingInputs
  /\ readingTime = 0
  /\ blogReadingTime = 0
  /\ returned = {}
  /\ IdlePosts /\ IdleSlug /\ IdleExcerpt /\ IdleTags /\ IdleSchema /\ IdleLoad /\ IdleCross /\ IdlePerf /\ IdleSocial /\ IdleVitals

CalculateReadingTime ==
  /\ "calculateReadingTime" \notin returned
  /\ readingTime' = calculateReadingTime(Text(content))
  /\ returned' = returned \cup {"calculateReadingTime"}
  /\ UNCHANGED <<content, blogReadingTime, exceptReadingVars>>

BlogCalculateReadingTime ==
  /\ "blogCalculateReadingTime" \notin returned
  /\ blogReadingTime' = blogCalculateReadingTime(Text(content))
  /\ returned' = returned \cup {"blogCalculateReadingTime"}
  /\ UNCHANGED <<content, readingTime, exceptReadingVars>>

NextReading == CalculateReadingTime \/ BlogCalculateReadingTime

SpecReading == InitReading /\ [][NextReading]_vars

(***************************************************************************)
(* SpecExcerpt: generateExcerpt on a body and a maximum length.            *)
(***************************************************************************)
InitExcerpt ==
  /\ \/ body \in StringsUpTo(ExcerptAlphabet, MaxBodyLen) /\ maxLength \in 0..MaxMaxLength
     \/ body \in LongBodies /\ maxLength = defaultMaxLength
  /\ excerpt = <<>>
  /\ returned = {}
  /\ IdlePosts /\ IdleSlug /\ IdleReading /\ IdleTags /\ IdleSchema /\ IdleLoad /\ IdleCross /\ IdlePerf /\ IdleSocial /\ IdleVitals

GenerateExcerpt ==
  /\ "generateExcerpt" \notin returned
  /\ excerpt' = generateExcerpt(body, maxLength)
  /\ returned' = returned \cup {"generateExcerpt"}
  /\ UNCHANGED <<body, maxLength, exceptExcerptVars>>

NextExcerpt == GenerateExcerpt

SpecExcerpt == InitExcerpt /\ [][NextExcerpt]_vars

(***************************************************************************)
(* SpecTags: sanitizeTags on an array of values.                           *)
(***************************************************************************)
InitTags ==
  /\ tags \in TagInputs
  /\ sanitizedTags = <<>>
  /\ returned = {}
  /\ IdlePosts /\ IdleSlug /\ IdleReading /\ IdleExcerpt /\ IdleSchema /\ IdleLoad /\ IdleCross /\ IdlePerf /\ IdleSocial /\ IdleVitals

SanitizeTags ==
  /\ "sanitizeTags" \notin returned
  /\ sanitizedTags' = sanitizeTags(tags)
  /\ returned' = returned \cup {"sanitizeTags"}
  /\ UNCHANGED <<tags, exceptTagVars>>

NextTags == SanitizeTags

SpecTags == InitTags /\ [][NextTags]_vars

(***************************************************************************)
(* SpecSchema: the schema of the 'blog' collection on one front matter.    *)
(***************************************************************************)
InitSchema ==
  /\ rawData \in RawData
  /\ parseResult = <<>>
  /\ returned = {}
  /\ IdlePosts /\ IdleSlug /\ IdleReading /\ IdleExcerpt /\ IdleTags /\ IdleLoad /\ IdleCross /\ IdlePerf /\ IdleSocial /\ IdleVitals

ParseFrontmatter ==
  /\ "safeParse" \notin returned
  /\ parseResult' = SafeParse(rawData)
  /\ returned' = returned \cup {"safeParse"}
  /\ UNCHANGED <<rawData, exceptSchemaVars>>

NextSchema == ParseFrontmatter

SpecSchema == InitSchema /\ [][NextSchema]_vars

(***************************************************************************)
(* SpecCross: new CrossBrowserTester().runAllTests().                      *)
(***************************************************************************)
InitCross ==
  /\ crossResults = NoResults
  /\ crossPc = 1
  /\ crossReport = <<>>
  /\ returned = {}
  /\ IdlePosts /\ IdleSlug /\ IdleReading /\ IdleExcerpt /\ IdleTags /\ IdleSchema /\ IdleLoad /\ IdlePerf /\ IdleSocial /\ IdleVitals

\* The call runAllTests is at.
CrossCall == CrossCalls[crossPc]

CrossAt(method) == crossPc \in 1..Len(CrossCalls) /\ CrossCall.method = method

TestPageLoad ==
  /\ CrossAt("testPageLoad")
  /\ \E loadTime \in LoadTimes :
       crossResults' = testPageLoad(crossResults, CrossCall.arg, loadTime)
  /\ crossPc' = crossPc + 1
  /\ UNCHANGED <<crossReport, returned, exceptCrossVars>>

TestNavigation ==
  /\ CrossAt("testNavigation")
  /\ crossResults' = testNavigation(crossResults, CrossCall.arg)
  /\ crossPc' = crossPc + 1
  /\ UNCHANGED <<crossReport, returned, exceptCrossVars>>

TestContentRendering ==
  /\ CrossAt("testContentRendering")
  /\ crossResults' = testContentRendering(crossResults, CrossCall.arg)
  /\ crossPc' = crossPc + 1
  /\ UNCHANGED <<crossReport, returned, exceptCrossVars>>

TestViewport ==
  /\ CrossAt("testViewport")
  /\ crossResults' = testViewport(crossResults, CrossCall.arg)
  /\ crossPc' = crossPc + 1
  /\ UNCHANGED <<crossReport, returned, exceptCrossVars>>

TestTouchInteractions ==
  /\ CrossAt("testTouchInteractions")
  /\ crossResults' = testTouchInteractions(crossResults)
  /\ crossPc' = crossPc + 1
  /\ UNCHANGED <<crossReport, returned, exceptCrossVars>>

CrossGenerateReport ==
  /\ CrossAt("generateReport")
  /\ crossReport' = CrossSummary(crossResults)
  /\ crossPc' = crossPc + 1
  /\ returned' = returned \cup {"CrossBrowserTester.runAllTests"}
  /\ UNCHANGED <<crossResults, exceptCrossVars>>

NextCross ==
  \/ TestPageLoad \/ TestNavigation \/ TestContentRendering
  \/ TestViewport \/ TestTouchInteractions \/ CrossGenerateReport

SpecCross == InitCross /\ [][NextCross]_vars

(***************************************************************************)
(* SpecPerf: new PerformanceAccessibilityTester().runAllTests().           *)
(***************************************************************************)
InitPerf ==
  /\ perfFiles \in WorkingDirectories
  /\ perfResults = NoCategoryResults
  /\ perfPc = 1
  /\ perfReport = <<>>
  /\ returned = {}
  /\ IdlePosts /\ IdleSlug /\ IdleReading /\ IdleExcerpt /\ IdleTags /\ IdleSchema /\ IdleLoad /\ IdleCross /\ IdleSocial /\ IdleVitals

PerfAt(method) == perfPc \in 1..Len(PerfCalls) /\ PerfCalls[perfPc] = method

\* A test method returns with this.results being results.
PerfReturns(results) ==
  /\ perfResults' = results
  /\ perfPc' = perfPc + 1
  /\ UNCHANGED <<perfFiles, perfReport, returned, exceptPerfVars>>

TestCoreWebVitals ==
  PerfAt("testCoreWebVitals") /\ PerfReturns(testCoreWebVitals(perfResults))

TestResourceLoading ==
  PerfAt("testResourceLoading") /\ PerfReturns(testResourceLoading(perfResults))

TestBundleSize ==
  PerfAt("testBundleSize") /\ PerfReturns(testBundleSize(perfResults, perfFiles))

TestImageOptimization ==
  /\ PerfAt("testImageOptimization")
  /\ PerfReturns(RecordEachIn(perfResults, "performance", "Image Optimization",
       <<"Images use modern formats (WebP/AVIF)",
         "Images have responsive sizes",
         "Images include proper alt attributes",
         "Images are lazy loaded where appropriate",
         "Images are compressed for web">>,
       <<"Image optimization check passed">>))

TestKeyboardNavigation ==
  /\ PerfAt("testKeyboardNavigation")
  /\ PerfReturns(RecordEachIn(perfResults, "accessibility", "Keyboard Navigation",
       <<"All interactive elements are keyboard accessible",
         "Tab order is logical and intuitive",
         "Focus indicators are clearly visible",
         "Skip links are available for screen readers",
         "No keyboard traps exist",
         "Enter and Space keys activate buttons",
         "Arrow keys work for navigation where appropriate">>,
       <<"Keyboard navigation test passed">>))

TestScreenReaderCompatibility ==
  /\ PerfAt("testScreenReaderCompatibility")
  /\ PerfReturns(RecordEachIn(perfResults, "accessibility", "Screen Reader",
       <<"Headings create logical document structure",
         "Images have descriptive alt text",
         "Links have meaningful text",
         "Form labels are properly associated",
         "Content is announced in logical order",
         "Dynamic content updates are announced",
         "Page title describes page content">>,
       <<"Screen reader compatibility test passed">>))

TestColorContrast ==
  PerfAt("testColorContrast") /\ PerfReturns(testColorContrast(perfResults))

TestSemanticMarkup ==
  /\ PerfAt("testSemanticMarkup")
  /\ PerfReturns(RecordEachIn(perfResults, "accessibility", "Semantic Markup",
       <<"Proper heading hierarchy (h1-h6)",
         "Semantic HTML5 elements used appropriately",
         "Lists use proper list markup",
         "Tables have proper headers and captions",
         "Forms use proper form elements",
         "Navigation uses nav element",
         "Main content uses main element",
         "Articles use article element">>,
       <<"Semantic markup test passed">>))

TestARIAAttributes ==
  /\ PerfAt("testARIAAttributes")
  /\ PerfReturns(RecordEachIn(perfResults, "accessibility", "ARIA",
       <<"ARIA labels used where needed",
         "ARIA roles are appropriate",
         "ARIA states are updated dynamically",
         "ARIA landmarks identify page regions",
         "ARIA descriptions provide additional context",
         "No conflicting ARIA attributes">>,
       <<"ARIA attribute test passed">>))

TestMetaTags ==
  /\ PerfAt("testMetaTags")
  /\ PerfReturns(RecordEachIn(perfResults, "seo", "Meta Tags",
       <<"Title tags are present and descriptive",
         "Meta descriptions are present and compelling",
         "Meta viewport is properly configured",
         "Meta charset is specified",
         "Canonical URLs are set",
         "Language is specified",
         "No duplicate meta tags">>,
       <<"Meta tag test passed">>))

TestStructuredData ==
  /\ PerfAt("testStructuredData")
  /\ PerfReturns(RecordEachIn(perfResults, "seo", "Structured Data",
       <<"JSON-LD structured data is present",
         "Article schema for blog posts",
         "Organization schema for site info",
         "Breadcrumb schema where applicable",
         "Valid structured data syntax">>,
       <<"Structured data test passed">>))

TestSitemapAndRobots ==
  PerfAt("testSitemapAndRobots") /\ PerfReturns(testSitemapAndRobots(perfResults, perfFiles))

TestSocialMediaTags ==
  /\ PerfAt("testSocialMediaTags")
  /\ PerfReturns(RecordEachIn(perfResults, "seo", "Social Media",
       <<"Open Graph title tags",
         "Open Graph description tags",
         "Open Graph image tags",
         "Twitter Card tags",
         "Social media image dimensions are correct",
         "Social sharing URLs are absolute">>,
       <<"Social media tag test passed">>))

RunHTMLValidation ==
  /\ PerfAt("runHTMLValidation")
  /\ PerfReturns(RecordEachIn(perfResults, "accessibility", "HTML Validation",
       <<"HTML5 doctype is present",
         "No unclosed tags",
         "Proper nesting of elements",
         "Valid attribute values",
         "No duplicate IDs",
         "Required attributes are present",
         "Deprecated elements are not used">>,
       <<"HTML validation test passed">>))

PerfGenerateReport ==
  /\ PerfAt("generateReport")
  /\ perfReport' = PerfSummary(perfResults)
  /\ perfPc' = perfPc + 1
  /\ returned' = returned \cup {"PerformanceAccessibilityTester.runAllTests"}
  /\ UNCHANGED <<perfFiles, perfResults, exceptPerfVars>>

NextPerf ==
  \/ TestCoreWebVitals \/ TestResourceLoading \/ TestBundleSize \/ TestImageOptimization
  \/ TestKeyboardNavigation \/ TestScreenReaderCompatibility \/ TestColorContrast
  \/ TestSemanticMarkup \/ TestARIAAttributes
  \/ TestMetaTags \/ TestStructuredData \/ TestSitemapAndRobots \/ TestSocialMediaTags
  \/ RunHTMLValidation \/ PerfGenerateReport

SpecPerf == InitPerf /\ [][NextPerf]_vars

(***************************************************************************)
(* SpecSocial: isValidUrl on a string, getSanitizedSocialLinks on a        *)
(* configuration.                                                          *)
(***************************************************************************)
InitSocial ==
  /\ \/ url \in UrlInputs /\ social = SITE_CONFIG.social
     \/ url = <<>> /\ social \in SocialConfigs
  /\ urlValid = <<>>
  /\ socialLinks = <<>>
  /\ returned = {}
  /\ IdlePosts /\ IdleSlug /\ IdleReading /\ IdleExcerpt /\ IdleTags /\ IdleSchema /\ IdleLoad /\ IdleCross /\ IdlePerf /\ IdleVitals

IsValidUrl ==
  /\ "isValidUrl" \notin returned
  /\ urlValid' = isValidUrl(url)
  /\ returned' = returned \cup {"isValidUrl"}
  /\ UNCHANGED <<url, social, socialLinks, exceptSocialVars>>

GetSanitizedSocialLinks ==
  /\ "getSanitizedSocialLinks" \notin returned
  /\ socialLinks' = getSanitizedSocialLinks(social)
  /\ returned' = returned \cup {"getSanitizedSocialLinks"}
  /\ UNCHANGED <<url, urlValid, social, exceptSocialVars>>

NextSocial == IsValidUrl \/ GetSanitizedSocialLinks

SpecSocial == InitSocial /\ [][NextSocial]_vars

(***************************************************************************)
(* SpecVitals: initWebVitals(callback), then the browser delivers batches  *)
(* of performance entries to the observers and dispatches visibilitychange *)
(* events.  The script runs to completion before any event is dispatched.  *)
(* The calls of the callback are kept per metric.                          *)
(***************************************************************************)
AllEntryTypes == {EntryType[n] : n \in DOMAIN EntryType}

\* No window (a render on the server), a window without PerformanceObserver,
\* and a browser whose observe() throws on no entry type, on one, or on all.
GlobalObjects ==
  {[defined |-> FALSE, PerformanceObserver |-> FALSE, unsupported |-> {}],
   [defined |-> TRUE, PerformanceObserver |-> FALSE, unsupported |-> {}]}
  \cup {[defined |-> TRUE, PerformanceObserver |-> TRUE, unsupported |-> u] :
          u \in {{}} \cup {{t} : t \in AllEntryTypes} \cup {AllEntryTypes}}

\* Batches of largest-contentful-paint entries: none, one, or an earlier
\* one followed by the latest.
LcpTimes == {0, 2500, 4000, 4001}
LcpBatches ==
  {<<>>} \cup {<<[startTime |-> t]>> : t \in LcpTimes}
  \cup {<<[startTime |-> t], [startTime |-> 4001]>> : t \in LcpTimes \ {4001}}

\* Batches of first-input entries: none or one, with a delay of 100, 300 or
\* 301 ms.
FidBatches ==
  {<<>>} \cup {<<[startTime |-> 1000, processingStart |-> 1000 + d]>> : d \in {100, 300, 301}}

\* Batches of layout-shift entries: none, one or two different ones.
LayoutShiftEntries ==
  {[value |-> 10, hadRecentInput |-> FALSE], [value |-> 15, hadRecentInput |-> FALSE],
   [value |-> 10, hadRecentInput |-> TRUE]}
ClsBatches ==
  {<<>>} \cup {<<e>> : e \in LayoutShiftEntries}
  \cup {b \in {<<e, f>> : e \in LayoutShiftEntries, f \in LayoutShiftEntries} : b[1] # b[2]}

\* Batches of paint entries: none, first-paint, first-contentful-paint, or
\* both.
FirstPaint == [name |-> "first-paint", startTime |-> 1700]
PaintBatches ==
  {<<>>, <<FirstPaint>>}
  \cup {<<[name |-> "first-contentful-paint", startTime |-> t]>> : t \in {1800, 3000, 3001}}
  \cup {<<FirstPaint, [name |-> "first-contentful-paint", startTime |-> 1800]>>}

\* Batches of navigation entries: none or one.
NavigationBatches ==
  {<<>>} \cup {<<[fetchStart |-> 10, responseStart |-> 10 + d]>> : d \in {800, 1800, 1801}}

InitVitals ==
  /\ globalObject \in GlobalObjects
  /\ visibilityState \in {"visible", "hidden"}
  /\ callbackArg \in {"undefined", "onMetric"}
  /\ vitalsPc = 0
  /\ observers = [n \in DOMAIN EntryType |-> [state |-> "none", callback |-> "undefined"]]
  /\ visibilityListeners = {}
  /\ lcpMetric = NoMetric
  /\ clsValue = 0
  /\ clsEntries = <<>>
  /\ clsMetric = NoMetric
  /\ reports = [n \in DOMAIN EntryType |-> <<>>]
  /\ warnings = <<>>
  /\ delivered = [n \in DOMAIN EntryType |-> <<>>]
  /\ hiddenSeen = FALSE
  /\ events = 0
  /\ returned = {}
  /\ IdlePosts /\ IdleSlug /\ IdleReading /\ IdleExcerpt /\ IdleTags /\ IdleSchema /\ IdleLoad /\ IdleCross /\ IdlePerf /\ IdleSocial

VitalsReturned == vitalsPc = Len(VitalsCalls) + 1

\* initWebVitals up to its first call: the early return without a window.
InitWebVitals ==
  /\ vitalsPc = 0
  /\ vitalsPc' = IF ~globalObject.defined THEN Len(VitalsCalls) + 1 ELSE 1
  /\ returned' = IF ~globalObject.defined THEN returned \cup {"initWebVitals"} ELSE returned
  /\ UNCHANGED <<globalObject, visibilityState, callbackArg, observers, visibilityListeners,
                 lcpMetric, clsValue, clsEntries, clsMetric, reports, warnings,
                 delivered, hiddenSeen, events, exceptVitalsVars>>

\* The call of one measurement by initWebVitals: the observer is created
\* and observes, and, where listens, the visibilitychange listener is added;
\* nothing of that when the measurement is skipped or observe() throws.
Measure(name, listens) ==
  /\ vitalsPc \in 1..Len(VitalsCalls)
  /\ VitalsCalls[vitalsPc] = name
  /\ LET ending == Measurement(globalObject, name)
     IN /\ observers' =
             IF ending = "observing"
             THEN [observers EXCEPT ![name] = [state |-> "connected",
                                               callback |-> finalCallback(callbackArg)]]
             ELSE observers
        /\ visibilityListeners' =
             IF ending = "observing" /\ listens
             THEN visibilityListeners \cup {name}
             ELSE visibilityListeners
        /\ warnings' = IF ending = "failed" THEN Append(warnings, name) ELSE warnings
        /\ vitalsPc' = AfterMeasurement(vitalsPc, ending)
  /\ returned' = IF vitalsPc' = Len(VitalsCalls) + 1
                 THEN returned \cup {"initWebVitals"}
                 ELSE returned
  /\ UNCHANGED <<globalObject, visibilityState, callbackArg, delivered, hiddenSeen, events,
                 exceptVitalsVars>>

\* getLCP(finalCallback): let metric.
GetLCP ==
  /\ Measure("LCP", TRUE)
  /\ lcpMetric' = NoMetric
  /\ UNCHANGED <<clsValue, clsEntries, clsMetric, reports>>

GetFID ==
  /\ Measure("FID", FALSE)
  /\ UNCHANGED <<lcpMetric, clsValue, clsEntries, clsMetric, reports>>

\* getCLS(finalCallback): let clsValue = 0, clsEntries = [], metric.
GetCLS ==
  /\ Measure("CLS", TRUE)
  /\ clsValue' = 0
  /\ clsEntries' = <<>>
  /\ clsMetric' = NoMetric
  /\ UNCHANGED <<lcpMetric, reports>>

GetFCP ==
  /\ Measure("FCP", FALSE)
  /\ UNCHANGED <<lcpMetric, clsValue, clsEntries, clsMetric, reports>>

GetTTFB ==
  /\ Measure("TTFB", FALSE)
  /\ UNCHANGED <<lcpMetric, clsValue, clsEntries, clsMetric, reports>>

\* The browser dispatches an event to the page.
Dispatching ==
  /\ VitalsReturned
  /\ globalObject.defined
  /\ events < (IF warnings = <<>> THEN MaxEvents ELSE MaxEventsAfterFailure)

\* The callback is called with each metric of calls, and the observer is
\* disconnected when disconnect holds.
Reported(name, calls) ==
  [reports EXCEPT ![name] =
     @ \o [i \in 1..Len(calls) |->
             [metric |-> calls[i], callback |-> observers[name].callback]]]

Disconnected(names) ==
  [n \in DOMAIN observers |->
     IF n \in names THEN [observers[n] EXCEPT !.state = "disconnected"] ELSE observers[n]]

\* A batch of largest-contentful-paint entries reaches the observer of getLCP.
LargestContentfulPaint ==
  /\ Dispatching
  /\ observers.LCP.state = "connected"
  /\ \E entries \in LcpBatches :
       LET outcome == lcpObserver(lcpMetric, entries)
       IN /\ lcpMetric' = outcome.closure
          /\ reports' = Reported("LCP", outcome.calls)
          /\ delivered' = [delivered EXCEPT !.LCP = Append(@, entries)]
  /\ events' = events + 1
  /\ UNCHANGED <<globalObject, visibilityState, callbackArg, vitalsPc, observers,
                 visibilityListeners, clsValue, clsEntries, clsMetric, warnings,
                 hiddenSeen, returned, exceptVitalsVars>>

\* A batch of first-input entries reaches the observer of getFID.
FirstInput ==
  /\ Dispatching
  /\ observers.FID.state = "connected"
  /\ \E entries \in FidBatches :
       /\ reports' = Reported("FID", fidObserver(entries).calls)
       /\ delivered' = [delivered EXCEPT !.FID = Append(@, entries)]
  /\ events' = events + 1
  /\ UNCHANGED <<globalObject, visibilityState, callbackArg, vitalsPc, observers,
                 visibilityListeners, lcpMetric, clsValue, clsEntries, clsMetric, warnings,
                 hiddenSeen, returned, exceptVitalsVars>>

\* A batch of layout-shift entries reaches the observer of getCLS.
LayoutShift ==
  /\ Dispatching
  /\ observers.CLS.state = "connected"
  /\ \E entries \in ClsBatches :
       LET outcome == clsObserver([clsValue |-> clsValue, clsEntries |-> clsEntries,
                                   metric |-> clsMetric], entries)
       IN /\ clsValue' = outcome.closure.clsValue
          /\ clsEntries' = outcome.closure.clsEntries
          /\ clsMetric' = outcome.closure.metric
          /\ reports' = Reported("CLS", outcome.calls)
          /\ delivered' = [delivered EXCEPT !.CLS = Append(@, entries)]
  /\ events' = events + 1
  /\ UNCHANGED <<globalObject, visibilityState, callbackArg, vitalsPc, observers,
                 visibilityListeners, lcpMetric, warnings, hiddenSeen, returned,
                 exceptVitalsVars>>

\* A batch of paint entries reaches the observer of getFCP.
Paint ==
  /\ Dispatching
  /\ observers.FCP.state = "connected"
  /\ \E entries \in PaintBatches :
       LET outcome == fcpObserver(entries)
       IN /\ reports' = Reported("FCP", outcome.calls)
          /\ observers' = IF outcome.disconnect THEN Disconnected({"FCP"}) ELSE observers
          /\ delivered' = [delivered EXCEPT !.FCP = Append(@, entries)]
  /\ events' = events + 1
  /\ UNCHANGED <<globalObject, visibilityState, callbackArg, vitalsPc, visibilityListeners,
                 lcpMetric, clsValue, clsEntries, clsMetric, warnings, hiddenSeen,
                 returned, exceptVitalsVars>>

\* A batch of navigation entries reaches the observer of getTTFB.
Navigation ==
  /\ Dispatching
  /\ observers.TTFB.state = "connected"
  /\ \E entries \in NavigationBatches :
       LET outcome == ttfbObserver(entries)
       IN /\ reports' = Reported("TTFB", outcome.calls)
          /\ observers' = IF outcome.disconnect THEN Disconnected({"TTFB"}) ELSE observers
          /\ delivered' = [delivered EXCEPT !.TTFB = Append(@, entries)]
  /\ events' = events + 1
  /\ UNCHANGED <<globalObject, visibilityState, callbackArg, vitalsPc, visibilityListeners,
                 lcpMetric, clsValue, clsEntries, clsMetric, warnings, hiddenSeen,
                 returned, exceptVitalsVars>>

\* The page changes from visible to hidden or back and visibilitychange is
\* dispatched: the listeners of getLCP and getCLS run, in the order they
\* were added, and are removed ({ once: true }).
VisibilityChange ==
  /\ Dispatching
  /\ LET state == IF visibilityState = "visible" THEN "hidden" ELSE "visible"
         lcpStops == "LCP" \in visibilityListeners /\ lcpVisibilityListener(state)
         clsReports == "CLS" \in visibilityListeners /\ clsVisibilityListener(state, clsMetric)
     IN /\ visibilityState' = state
        /\ reports' = IF clsReports THEN Reported("CLS", <<clsMetric>>) ELSE reports
        /\ observers' = Disconnected((IF lcpStops THEN {"LCP"} ELSE {})
                                     \cup (IF clsReports THEN {"CLS"} ELSE {}))
        /\ hiddenSeen' = (hiddenSeen \/ state = "hidden")
  /\ visibilityListeners' = {}
  /\ events' = events + 1
  /\ UNCHANGED <<globalObject, callbackArg, vitalsPc, lcpMetric, clsValue, clsEntries,
                 clsMetric, warnings, delivered, returned, exceptVitalsVars>>

NextVitals ==
  \/ InitWebVitals
  \/ GetLCP
  \/ GetFID
  \/ GetCLS
  \/ GetFCP
  \/ GetTTFB
  \/ LargestContentfulPaint
  \/ FirstInput
  \/ LayoutShift
  \/ Paint
  \/ Navigation
  \/ VisibilityChange

SpecVitals == InitVitals /\ [][NextVitals]_vars

(***************************************************************************)
(* Spec: the loader delivers a collection, getPublishedBlogPosts resolves. *)
(***************************************************************************)
Init ==
  /\ collection \in Collections
  /\ published = <<>>
  /\ returned = {}
  /\ rawEntries = <<>> /\ loader = "resolved" /\ loadError = <<>>
  /\ IdleSlug /\ IdleReading /\ IdleExcerpt /\ IdleTags /\ IdleSchema /\ IdleCross /\ IdlePerf /\ IdleSocial /\ IdleVitals

GetPublishedBlogPosts ==
  /\ loader = "resolved"
  /\ "getPublishedBlogPosts" \notin returned
  /\ published' = getPublishedBlogPosts(collection)
  /\ returned' = returned \cup {"getPublishedBlogPosts"}
  /\ UNCHANGED <<collection, exceptPostVars>>

Next == GetPublishedBlogPosts

Spec == Init /\ [][Next]_vars

(***************************************************************************)
(* SpecLoad: getPublishedBlogPosts on the files of the collection: the     *)
(* loader validates them, then the call resolves or rejects.               *)
(***************************************************************************)
InitLoad ==
  /\ rawEntries \in RawCollections
  /\ loader = "pending"
  /\ loadError = <<>>
  /\ collection = <<>>
  /\ published = <<>>
  /\ returned = {}
  /\ IdleSlug /\ IdleReading /\ IdleExcerpt /\ IdleTags /\ IdleSchema /\ IdleCross /\ IdlePerf /\ IdleSocial /\ IdleVitals

\* getCollection settles (blog.ts, lines 9-11: the call is awaited outside
\* any try block).
LoadCollection ==
  /\ loader = "pending"
  /\ LET outcome == LoadEntries(rawEntries)
     IN /\ loader' = outcome.status
        /\ collection' = outcome.entries
        /\ loadError' = IF outcome.status = "resolved"
                          THEN <<>>
                          ELSE <<"content collection error">>
  /\ UNCHANGED <<rawEntries, published, returned, exceptLoadVars>>

\* await getCollection(...) throws: nothing catches it, the promise of
\* getPublishedBlogPosts rejects.
RejectPublishedBlogPosts ==
  /\ loader = "rejected"
  /\ "getPublishedBlogPosts: rejected" \notin returned
  /\ returned' = returned \cup {"getPublishedBlogPosts: rejected"}
  /\ UNCHANGED <<collection, published, exceptPostVars>>

NextLoad == LoadCollection \/ GetPublishedBlogPosts \/ RejectPublishedBlogPosts

SpecLoad == InitLoad /\ [][NextLoad]_vars

(***************************************************************************)
(* Properties of getPublishedBlogPosts, checked under Spec.                *)
(***************************************************************************)
Resolved == "getPublishedBlogPosts" \in returned

\* The positions of entry e in the sequence s.
Positions(s, e) == {i \in 1..Len(s) : s[i] = e}

\* C1: the array getPublishedBlogPosts resolves with holds no entry whose
\* draft flag is true, and holds every entry of the collection whose draft
\* flag is false exactly once.
C1_DraftsExcluded ==
  Resolved =>
    /\ \A i \in 1..Len(published) : ~published[i].data.draft
    /\ \A i \in 1..Len(published) : Positions(collection, published[i]) # {}
    /\ \A k \in 1..Len(collection) :
         ~collection[k].data.draft => Cardinality(Positions(published, collection[k])) = 1

\* A collection of three entries, one of them a draft, resolved to the other two.
C1_Witness ==
  /\ Resolved
  /\ Len(collection) = 3
  /\ Len(published) = 2
  /\ \E k \in 1..3 : collection[k].data.draft /\ Positions(published, collection[k]) = {}

\* C2: the resolved array is ordered by publishDate, newest first: no element
\* is older than its successor; entries dated 2024-01-15, 2024-01-20 and
\* 2024-01-25 come out as 01-25, 01-20, 01-15 whatever the delivery order.
C2_NewestFirst ==
  Resolved =>
    /\ \A i \in 1..(Len(published) - 1) :
         published[i].data.publishDate.time >= published[i + 1].data.publishDate.time
    /\ (/\ Len(collection) = 3
        /\ \A k \in 1..3 : ~collection[k].data.draft
        /\ {collection[k].data.publishDate.time : k \in 1..3} = {19737, 19742, 19747})
       => [i \in 1..3 |-> published[i].data.publishDate.time] = <<19747, 19742, 19737>>

\* Delivered oldest first, resolved newest first.
C2_Witness ==
  /\ Resolved
  /\ Len(collection) = 3
  /\ [k \in 1..3 |-> collection[k].data.publishDate.time] = <<19737, 19742, 19747>>
  /\ [i \in 1..Len(published) |-> published[i].data.publishDate.time] = <<19747, 19742, 19737>>

\* a < b for two strings: the comparison of their code units.
StringLess(a, b) ==
  \E n \in 0..Len(a) :
    /\ n <= Len(b)
    /\ \A i \in 1..n : a[i] = b[i]
    /\ \/ n = Len(a) /\ n < Len(b)
       \/ n < Len(a) /\ n < Len(b) /\ a[n + 1] < b[n + 1]

SameDate(e, f) == e.data.publishDate.time = f.data.publishDate.time

\* C3 as stated: two entries of the resolved array with the same publishDate
\* are in ascending order of their identifiers.
C3_TiesByIdentifier ==
  Resolved =>
    \A i, j \in 1..Len(published) :
      (i < j /\ SameDate(published[i], published[j]))
        => StringLess(published[i].id, published[j].id)

\* C3 as amended: two entries of the resolved array with the same publishDate
\* are in the order in which the loader delivered them.
C3_TiesKeepDeliveryOrder ==
  Resolved =>
    \A i, j \in 1..Len(published) :
      (i < j /\ SameDate(published[i], published[j]))
        => \A k \in Positions(collection, published[i]) :
             \A l \in Positions(collection, published[j]) : k < l

\* Two published entries of one date, delivered in descending identifier
\* order, around an entry of a newer date delivered between them.
C3_Witness ==
  /\ Resolved
  /\ Len(published) = 3
  /\ SameDate(collection[1], collection[3])
  /\ StringLess(collection[3].id, collection[1].id)
  /\ collection[2].data.publishDate.time > collection[1].data.publishDate.time
  /\ published = <<collection[2], collection[1], collection[3]>>

SameSlug(e, f) == sanitizeSlug(e.id) = sanitizeSlug(f.id)

\* C4: no resolved array holds two entries whose identifiers sanitize to the
\* same slug (two such non-draft entries make the call fail instead).
\* getPublishedBlogPosts (blog.ts, lines 8-16) filters the drafts and sorts;
\* it never calls sanitizeSlug and compares no two entries, so the property
\* fails on the code.
C4_NoDuplicateSlugPublished ==
  Resolved =>
    \A i, j \in 1..Len(published) :
      i # j => ~SameSlug(published[i], published[j])

\* Where it fails: the call resolved with the non-draft entries "a-b" and
\* "a/b" both in the array, and both sanitize to "a-b".
C4_Witness ==
  /\ Resolved
  /\ \E i, j \in 1..Len(published) :
       /\ published[i].id = <<97, 45, 98>>
       /\ published[j].id = <<97, 47, 98>>
       /\ sanitizeSlug(published[j].id) = <<97, 45, 98>>
       /\ sanitizeSlug(published[i].id) = <<97, 45, 98>>

(***************************************************************************)
(* Properties of sanitizeSlug, checked under SpecSlug.                     *)
(***************************************************************************)
\* C5: the result of sanitizeSlug holds only a-z, 0-9 and "-" (so no upper
\* case), does not start or end with "-", holds no "--"; it is empty or
\* matches ^[a-z0-9]([a-z0-9-]*[a-z0-9])?$; the call returns for every input,
\* and the empty input gives the empty string.
C5_SlugShape ==
  /\ "sanitizeSlug" \notin returned => ENABLED SanitizeSlug
  /\ "sanitizeSlug" \in returned =>
       /\ \A i \in 1..Len(slugOnce) :
            slugOnce[i] \in (97..122) \cup (48..57) \cup {45}
       /\ slugOnce # <<>> => slugOnce[1] # 45 /\ slugOnce[Len(slugOnce)] # 45
       /\ \A i \in 1..(Len(slugOnce) - 1) : ~(slugOnce[i] = 45 /\ slugOnce[i + 1] = 45)
       /\ \/ slugOnce = <<>>
          \/ /\ slugOnce[1] \in (97..122) \cup (48..57)
             /\ slugOnce[Len(slugOnce)] \in (97..122) \cup (48..57)
       /\ slug = <<>> => slugOnce = <<>>

\* "- A-" gives "a": lowered, the space replaced, the hyphens collapsed, the
\* edges stripped.
C5_Witness ==
  /\ "sanitizeSlug" \in returned
  /\ slug = <<45, 32, 65, 45>>
  /\ slugOnce = <<97>>

\* C6: sanitizeSlug applied to its own result returns that result.
C6_SlugIdempotent ==
  "sanitizeSlugAgain" \in returned => slugTwice = slugOnce

\* An input the first application changes and the second leaves alone.
C6_Witness ==
  /\ "sanitizeSlugAgain" \in returned
  /\ slug = <<45, 65, 32, 57>>
  /\ slugOnce = <<97, 45, 57>>
  /\ slugTwice = slugOnce

(***************************************************************************)
(* Properties of calculateReadingTime, checked under SpecReading.          *)
(***************************************************************************)
\* The words of s: its maximal runs of code units that are not white space.
WordCount(s) ==
  Cardinality({i \in 1..Len(s) :
                 ~IsWhiteSpace(s[i]) /\ (i = 1 \/ IsWhiteSpace(s[i - 1]))})

\* C7: calculateReadingTime returns an integer of at least 1 for every body,
\* the empty and the white-space-only ones included (both functions of that
\* name do).
C7_ReadingTimeAtLeastOne ==
  /\ "calculateReadingTime" \in returned => readingTime \in Nat /\ readingTime >= 1
  /\ "blogCalculateReadingTime" \in returned =>
       blogReadingTime \in Nat /\ blogReadingTime >= 1

\* The empty body and a white-space-only body, each read in one minute.
C7_Witness ==
  /\ returned = {"calculateReadingTime", "blogCalculateReadingTime"}
  /\ Text(content) \in {<<>>, <<32, 10>>}
  /\ WordCount(Text(content)) = 0
  /\ readingTime = 1
  /\ blogReadingTime = 1

\* C8: calculateReadingTime returns max(1, ceil(W / 200)), W being the number
\* of words in the first 100,000 code units of the body; 400 words separated
\* by spaces give 2 and 401 give 3.
C8_ReadingTimeFormula ==
  "calculateReadingTime" \in returned =>
    LET W == WordCount(SliceTo(Text(content), maxContentLength))
    IN /\ readingTime >= 1
       /\ readingTime * wordsPerMinute >= W
       /\ readingTime > 1 => (readingTime - 1) * wordsPerMinute < W
       /\ content = Words(2 * wordsPerMinute, <<32>>) => readingTime = 2
       /\ content = Words(2 * wordsPerMinute + 1, <<32>>) => readingTime = 3

\* A body of 401 words whose last word starts after the 100,000th code unit:
\* the result is that of the first 400 words.
C8_Witness ==
  /\ "calculateReadingTime" \in returned
  /\ content = PaddedWords(2 * wordsPerMinute, maxContentLength) \o <<Segment(<<32, 119>>, 1)>>
  /\ WordCount(Text(content)) = 2 * wordsPerMinute + 1
  /\ readingTime = 2

(***************************************************************************)
(* Properties of generateExcerpt, checked under SpecExcerpt.               *)
(***************************************************************************)
\* C9: the excerpt has at most maxLength + 3 code units.
C9_ExcerptLength ==
  "generateExcerpt" \in returned => Len(excerpt) <= maxLength + 3

\* A body of one long word with the default maximum: 160 code units and the
\* marker.
C9_Witness ==
  /\ "generateExcerpt" \in returned
  /\ maxLength = defaultMaxLength
  /\ Len(PlainText(body)) > defaultMaxLength
  /\ Len(excerpt) = defaultMaxLength + 3

\* C10: when the plain text is longer than maxLength, the excerpt is the
\* window of the first maxLength code units cut at its last white space
\* (space, tab, newline, ...) followed by the marker, and the whole window
\* followed by the marker only when the window holds no white space.
C10_CutAtLastWhiteSpace ==
  ("generateExcerpt" \in returned /\ Len(PlainText(body)) > maxLength) =>
    LET window == SubSeq(PlainText(body), 1, maxLength)
        spaces == {i \in 1..Len(window) : IsWhiteSpace(window[i])}
    IN IF spaces = {}
       THEN excerpt = window \o Ellipsis
       ELSE excerpt = SubSeq(window, 1, (CHOOSE i \in spaces : \A j \in spaces : j <= i) - 1)
                        \o Ellipsis

\* Position p of s lies in a markup span: from a "<" up to the first ">"
\* after it.
InsideTag(s, p) ==
  /\ \E j \in p..Len(s) : s[j] = 62
  /\ \E i \in 1..p : s[i] = 60 /\ \A k \in i..(p - 1) : s[k] # 62

\* Word characters, white space and . , ! ? -
AllowedInExcerpt ==
  (48..57) \cup (65..90) \cup (97..122) \cup {95} \cup WhiteSpace \cup {46, 44, 33, 63, 45}

\* The code units of s that lie in no markup span and are allowed in an
\* excerpt, in their order.
VisibleText(s) ==
  LET kept == SelectSeq([p \in 1..Len(s) |-> p],
                        LAMBDA p : s[p] \in AllowedInExcerpt /\ ~InsideTag(s, p))
  IN [k \in 1..Len(kept) |-> s[kept[k]]]

\* C11: the excerpt holds only word characters, white space and . , ! ? -
\* (so neither "<" nor ">"), and nothing of a <...> span: it is the trimmed
\* text outside the spans, or a part of it from its start followed by the
\* marker.
C11_ExcerptCharacters ==
  "generateExcerpt" \in returned =>
    /\ \A i \in 1..Len(excerpt) : excerpt[i] \in AllowedInExcerpt
    /\ \A i \in 1..Len(excerpt) : excerpt[i] \notin {60, 62}
    /\ LET visible == Trim(VisibleText(body))
       IN \E n \in 0..Len(visible) :
            \/ excerpt = SubSeq(visible, 1, n) /\ n = Len(visible)
            \/ excerpt = SubSeq(visible, 1, n) \o Ellipsis

\* "<a>a*": the tag and the asterisk are gone.
C11_Witness ==
  /\ "generateExcerpt" \in returned
  /\ body = <<60, 97, 62, 97, 42>>
  /\ maxLength = 3
  /\ excerpt = <<97>>

(***************************************************************************)
(* Properties of sanitizeTags, checked under SpecTags.                     *)
(***************************************************************************)
TagsReturned == "sanitizeTags" \in returned

\* A valid tag: a string that is not blank and holds only letters, digits,
\* hyphens and white space.
ValidTag(v) ==
  /\ v.type = "string"
  /\ \E i \in 1..Len(v.str) : v.str[i] \notin WhiteSpace
  /\ \A i \in 1..Len(v.str) :
       v.str[i] \in (97..122) \cup (65..90) \cup (48..57) \cup {45} \cup WhiteSpace

\* The positions of the valid tags of the argument, in ascending order.
ValidPositions ==
  SelectSeq([i \in 1..Len(tags) |-> i], LAMBDA i : ValidTag(tags[i]))

\* The normalized form of the value at position i of the argument.
Normalized(i) == ToLowerCase(Trim(tags[i].str))

\* C12: every element of the result is trimmed, not blank, without upper case,
\* made of a-z, 0-9, hyphen and white space; the result has at most 10
\* elements; "C++ <script>" is never in it, and "Web-Design" among the first
\* 10 values of the argument is in it as "web-design".
C12_TagShape ==
  TagsReturned =>
    /\ Len(sanitizedTags) <= 10
    /\ \A k \in 1..Len(sanitizedTags) :
         LET tag == sanitizedTags[k]
         IN /\ tag # <<>>
            /\ tag[1] \notin WhiteSpace /\ tag[Len(tag)] \notin WhiteSpace
            /\ \A i \in 1..Len(tag) :
                 tag[i] \in (97..122) \cup (48..57) \cup {45} \cup WhiteSpace
            /\ tag \notin {CppScript, ToLowerCase(CppScript), WebDesign}
    /\ (\E i \in 1..Len(tags) : i <= 10 /\ tags[i] = Str(WebDesign))
         => \E k \in 1..Len(sanitizedTags) :
              sanitizedTags[k] = <<119, 101, 98, 45, 100, 101, 115, 105, 103, 110>>

\* "C++ <script>" is dropped, "Web-Design" and "A" are lowered.
C12_Witness ==
  /\ TagsReturned
  /\ tags = <<Str(CppScript), Str(WebDesign), Str(<<65>>)>>
  /\ sanitizedTags = <<ToLowerCase(WebDesign), <<97>>>>

\* C13: when the argument holds more than 10 valid tags, the result has
\* exactly 10 elements: the normalized forms of the first 10 valid tags, in
\* their order.
C13_TagCap ==
  TagsReturned =>
    LET valid == ValidPositions
    IN Len(valid) > 10 =>
         /\ Len(sanitizedTags) = 10
         /\ \A k \in 1..10 : sanitizedTags[k] = Normalized(valid[k])

\* Twelve different valid tags after a valid and an invalid one: the result
\* ends with the ninth of the twelve.
C13_Witness ==
  /\ TagsReturned
  /\ tags = <<Str(<<65>>), NotAString>> \o DistinctTags(12)
  /\ Len(sanitizedTags) = 10
  /\ sanitizedTags[1] = <<97>>
  /\ sanitizedTags[10] = <<116, 105>>

\* C14: the values that are not valid tags take none of the 10 places: the
\* result has as many elements as there are valid tags, up to 10, and its
\* k-th element is the k-th valid tag, however many other values precede it;
\* k such values followed by 10 valid tags give all 10.
C14_TruncateAfterFilter ==
  TagsReturned =>
    LET valid == ValidPositions
        n == IF Len(valid) < 10 THEN Len(valid) ELSE 10
    IN /\ Len(sanitizedTags) = n
       /\ \A k \in 1..n : sanitizedTags[k] = Normalized(valid[k])
       /\ (Len(valid) = 10 /\ valid[1] = Len(tags) - 9)
            => sanitizedTags = [k \in 1..10 |-> Normalized(Len(tags) - 10 + k)]

\* A number and a blank string before ten valid tags: all ten are returned.
C14_Witness ==
  /\ TagsReturned
  /\ tags = <<NotAString, Str(<<32>>)>> \o DistinctTags(10)
  /\ Len(sanitizedTags) = 10
  /\ sanitizedTags[10] = <<116, 106>>

\* C15: two values that normalize to the same valid tag, both among the
\* first 10 valid tags, are both in the result, each at its own rank among
\* the valid tags.
C15_NoDeduplication ==
  TagsReturned =>
    LET valid == ValidPositions
        n == IF Len(valid) < 10 THEN Len(valid) ELSE 10
    IN \A a, b \in 1..n :
         (a < b /\ Normalized(valid[a]) = Normalized(valid[b]))
           => /\ b <= Len(sanitizedTags)
              /\ sanitizedTags[a] = Normalized(valid[a])
              /\ sanitizedTags[b] = Normalized(valid[a])

\* "a", "A" and " a " all come out as "a".
C15_Witness ==
  /\ TagsReturned
  /\ tags = <<Str(<<97>>), Str(<<65>>), Str(<<32, 97, 32>>)>>
  /\ sanitizedTags = <<<<97>>, <<97>>, <<97>>>>

(***************************************************************************)
(* Properties of the schema of the 'blog' collection, checked under        *)
(* SpecSchema.                                                             *)
(***************************************************************************)
Parsed == "safeParse" \in returned

\* The string of title, description or author has nothing but white space.
BlankString(v) == v.type = "string" /\ Trim(v.str) = <<>>

\* C16 as the specification words it: a front matter is accepted only if
\* title, description and author are strings that are not empty after
\* trimming.
C16_NonBlankRequired ==
  (Parsed /\ parseResult.success) =>
    \A f \in RequiredStrings : rawData[f].type = "string" /\ ~BlankString(rawData[f])

\* C16: the schema raises an issue on title, description or author exactly
\* when the value is not a string: a key left out is reported as a missing
\* value, a string is accepted whatever it holds, the empty string and
\* strings of white space included, and a front matter is accepted only if
\* all three are strings.
C16_StringsRequired ==
  Parsed =>
    /\ \A f \in RequiredStrings :
         IF rawData[f].type = "string"
           THEN \A issue \in (IF parseResult.success THEN {} ELSE parseResult.issues) :
                  issue.path # f
           ELSE /\ ~parseResult.success
                /\ [path |-> f, code |-> "invalid_type", received |-> rawData[f].type]
                     \in parseResult.issues
    /\ parseResult.success => \A f \in RequiredStrings : rawData[f].type = "string"

\* A front matter whose title is the empty string and whose author is white
\* space has been accepted.
C16_Witness ==
  /\ Parsed
  /\ parseResult.success
  /\ rawData.title = Str(<<>>)
  /\ BlankString(rawData.author) /\ rawData.author # Str(<<>>)
  /\ parseResult.data.title = <<>>

(***************************************************************************)
(* Properties of getPublishedBlogPosts on the files of the collection,     *)
(* checked under SpecLoad.                                                 *)
(***************************************************************************)
Rejected == "getPublishedBlogPosts: rejected" \in returned

Settled == Resolved \/ Rejected

\* File i has no title and fails the schema.
MissingTitle(i) == rawEntries[i].data.title = Undefined

\* File i passes the schema.
ValidFile(i) == SafeParse(rawEntries[i].data).success

\* File i passes the schema and is no draft.
ValidNonDraft(i) == ValidFile(i) /\ rawEntries[i].data.draft # BooleanValue(TRUE)

PublishedIds == {published[k].id : k \in 1..Len(published)}

\* C17: a schema failure of one file is not fatal.  With one file missing
\* its title and another file valid, the call resolves, the malformed file is
\* absent from the output and every valid file that is no draft is in it.
\* Nothing in getPublishedBlogPosts (blog.ts, lines 8-16) or in the
\* collection (part_005) excludes a malformed file or catches the error of
\* the loader, so the property fails on the code.
C17_MalformedDropped ==
  (/\ Settled
   /\ \E i, j \in 1..Len(rawEntries) : MissingTitle(i) /\ ValidFile(j))
    => /\ Resolved
       /\ \A i \in 1..Len(rawEntries) :
            /\ MissingTitle(i) => rawEntries[i].id \notin PublishedIds
            /\ ValidNonDraft(i) => rawEntries[i].id \in PublishedIds

\* Where it fails: on a collection of a file without title and a valid file
\* that is no draft, the await threw a content collection error, the call
\* rejected and there is no output; the valid file is in no output.
C17_Witness ==
  /\ Rejected /\ ~Resolved
  /\ loadError = <<"content collection error">>
  /\ published = <<>>
  /\ \E i, j \in 1..Len(rawEntries) :
       /\ MissingTitle(i) /\ ~ValidFile(i)
       /\ ValidNonDraft(j)
       /\ rawEntries[j].id \notin PublishedIds

(***************************************************************************)
(* Properties of CrossBrowserTester.runAllTests, checked under SpecCross.  *)
(***************************************************************************)
CrossDone == "CrossBrowserTester.runAllTests" \in returned

\* The page load results recorded.
PageLoadResults ==
  SelectSeq(crossResults.tests, LAMBDA r : r.name[1] = "Page Load")

\* C18: no test is ever recorded as failed, whatever the simulated load
\* times are, and a finished run of runAllTests has recorded exactly 46
\* tests, 46 of them passed and none failed, which is what its report says.
C18_CrossBrowserCounts ==
  /\ crossResults.failed = 0
  /\ crossResults.passed = Len(crossResults.tests)
  /\ \A i \in 1..Len(crossResults.tests) : crossResults.tests[i].passed
  /\ CrossDone =>
       /\ Len(crossResults.tests) = 46
       /\ crossResults.passed = 46
       /\ crossReport = [totalTests |-> 46, passed |-> 46, failed |-> 0]

\* A run has finished whose page loads took the shortest and the longest
\* simulated time.
C18_Witness ==
  /\ CrossDone
  /\ Len(crossResults.tests) = 46
  /\ Len(PageLoadResults) = Len(TEST_CONFIG.pages)
  /\ PageLoadResults[1].message = <<"Loaded in", randomOffset>>
  /\ PageLoadResults[2].message = <<"Loaded in", randomScale + randomOffset - 1>>

(***************************************************************************)
(* Properties of PerformanceAccessibilityTester.runAllTests, checked under *)
(* SpecPerf.                                                               *)
(***************************************************************************)
PerfDone == "PerformanceAccessibilityTester.runAllTests" \in returned

PerfRecorded ==
  Len(perfResults.performance.tests) + Len(perfResults.accessibility.tests)
    + Len(perfResults.seo.tests)

PerfPassed ==
  perfResults.performance.passed + perfResults.accessibility.passed + perfResults.seo.passed

PerfFailed ==
  perfResults.performance.failed + perfResults.accessibility.failed + perfResults.seo.failed

HasBuild == "dist" \in perfFiles

HasSitemap == "dist/sitemap-index.xml" \in perfFiles \/ "dist/sitemap.xml" \in perfFiles

\* C19 as the specification words it: every finished run has recorded 79
\* tests, 79 of them passed and none failed.
C19_AlwaysAllPassed ==
  PerfDone => PerfRecorded = 79 /\ PerfPassed = 79 /\ PerfFailed = 0

\* C19: what a finished run has recorded depends on the build output in
\* the working directory.  With dist and a sitemap in it: 79 tests, all
\* passed.  With dist and no sitemap: 79 tests, the sitemap test failed.
\* Without dist: 75 tests, the bundle analysis and the sitemap test failed.
\* The accessibility category always has 40 passed tests, seo 20 tests,
\* performance 19 tests with dist and 15 without, and the report says so.
C19_CountsFollowBuildOutput ==
  PerfDone =>
    /\ PerfRecorded = (IF HasBuild THEN 79 ELSE 75)
    /\ PerfFailed = (IF HasBuild THEN 0 ELSE 1) + (IF HasSitemap THEN 0 ELSE 1)
    /\ PerfPassed = PerfRecorded - PerfFailed
    /\ perfReport.totalTests = PerfRecorded /\ perfReport.totalPassed = PerfPassed
    /\ perfReport.accessibility = [passed |-> 40, failed |-> 0, total |-> 40]
    /\ perfReport.seo.total = 20
    /\ perfReport.seo.failed = (IF HasSitemap THEN 0 ELSE 1)
    /\ perfReport.performance.total = (IF HasBuild THEN 19 ELSE 15)
    /\ perfReport.performance.failed = (IF HasBuild THEN 0 ELSE 1)
    /\ (PerfRecorded = 79 /\ PerfPassed = 79 /\ PerfFailed = 0) <=> (HasBuild /\ HasSitemap)

\* A run has finished in a working directory without dist: 75 tests, two of
\* them failed.
C19_Witness ==
  /\ PerfDone
  /\ ~HasBuild
  /\ PerfRecorded = 75 /\ PerfPassed = 73 /\ PerfFailed = 2

(***************************************************************************)
(* Properties of isValidUrl and getSanitizedSocialLinks, checked under     *)
(* SpecSocial.                                                             *)
(***************************************************************************)
UrlChecked == "isValidUrl" \in returned

LinksReturned == "getSanitizedSocialLinks" \in returned

\* s starts with prefix, whatever the case of its letters.
StartsWithIgnoringCase(s, prefix) ==
  Len(s) >= Len(prefix) /\ ToLowerCase(SubSeq(s, 1, Len(prefix))) = prefix

\* The string, its surrounding spaces aside, starts with "http:" or
\* "https:".
HasHttpScheme(s) ==
  \E protocol \in AllowedProtocols : StartsWithIgnoringCase(StripC0ControlOrSpace(s), protocol)

\* The string has no ":", as a bare e-mail address has none.
HasNoScheme(s) == \A i \in 1..Len(s) : s[i] # 58

\* A value of the configuration that must not come out: left out, empty,
\* without a scheme, or with a scheme other than http and https.
Unsafe(v) == v.type # "string" \/ v.str = <<>> \/ HasNoScheme(v.str) \/ ~HasHttpScheme(v.str)

\* C20: isValidUrl returns and never throws, and returns true only for a
\* string that parses as a URL of protocol http: or https:.
\* getSanitizedSocialLinks returns, in the order of the configuration, links
\* whose url parses with protocol http: or https:; a value that is left
\* out, empty, unparseable or of another scheme has no link.
C20_OnlyHttpLinks ==
  /\ UrlChecked =>
       /\ urlValid.type = "return"
       /\ urlValid.value \in BOOLEAN
       /\ urlValid.value =>
            /\ HasHttpScheme(url)
            /\ NewURL(url).type = "return"
            /\ NewURL(url).value.protocol \in AllowedProtocols
       /\ (HasNoScheme(url) \/ ~HasHttpScheme(url)) => ~urlValid.value
  /\ LinksReturned =>
       /\ socialLinks.type = "return"
       /\ \A k \in 1..Len(socialLinks.value) :
            /\ HasHttpScheme(socialLinks.value[k].url)
            /\ NewURL(socialLinks.value[k].url).type = "return"
            /\ NewURL(socialLinks.value[k].url).value.protocol \in AllowedProtocols
            /\ \E i \in 1..Len(social) :
                 /\ social[i].platform = socialLinks.value[k].platform
                 /\ social[i].url = Str(socialLinks.value[k].url)
       /\ \A i \in 1..Len(social) :
            Unsafe(social[i].url) =>
              \A k \in 1..Len(socialLinks.value) :
                socialLinks.value[k].platform # social[i].platform

\* The configuration of the repository has given its three https links and
\* no link for the e-mail address.
C20_Witness ==
  /\ LinksReturned
  /\ social = SITE_CONFIG.social
  /\ socialLinks.type = "return"
  /\ Len(socialLinks.value) = 3
  /\ \A k \in 1..3 : socialLinks.value[k].platform = social[k].platform
  /\ socialLinks.value[1].label = FollowLabel(social[1].platform)

(***************************************************************************)
(* The two functions named calculateReadingTime, checked under SpecReading. *)
(***************************************************************************)
\* C28: for every body of at most 100,000 code units, calculateReadingTime of
\* utils/blog.ts and calculateReadingTime of the security helpers return the
\* same value.
C28_SameReadingTime ==
  /\ "calculateReadingTime" \in returned
  /\ "blogCalculateReadingTime" \in returned
  /\ Len(Text(content)) <= maxContentLength
  => readingTime = blogReadingTime

\* A body of exactly 100,000 code units whose 201st word is its last code
\* unit: both functions count 201 words and return 2.
C28_Witness ==
  /\ returned = {"calculateReadingTime", "blogCalculateReadingTime"}
  /\ content = PaddedWords(wordsPerMinute, maxContentLength - 2) \o <<Segment(<<32, 119>>, 1)>>
  /\ Len(Text(content)) = maxContentLength
  /\ readingTime = 2
  /\ blogReadingTime = 2

(***************************************************************************)
(* Properties of web-vitals.ts, checked under SpecVitals.                  *)
(***************************************************************************)
\* Whether the observer of a metric was set to observe by initWebVitals.
Observed(name) == observers[name].state # "none"

\* The metrics the callback was called with for a metric, in order.
MetricsReported(name) == [i \in 1..Len(reports[name]) |-> reports[name][i].metric]

\* C21: once a visibilitychange was dispatched at which the page is hidden,
\* the observer of getLCP is disconnected and the callback is not called for
\* any later largest-contentful-paint entry, whatever visibility changes
\* came before, a first change to visible included.
C21_HiddenStopsLCP ==
  [][(Observed("LCP") /\ hiddenSeen') =>
       /\ observers'.LCP.state = "disconnected"
       /\ hiddenSeen => reports'.LCP = reports.LCP]_vars

\* The page was loaded hidden and became visible, then hidden: the listener
\* of getLCP was spent on the first change, and the observer still observes
\* and reports the next entry.
C21_Diverges ==
  /\ hiddenSeen
  /\ visibilityState = "hidden"
  /\ observers.LCP.state = "connected"
  /\ Len(reports.LCP) = 1
  /\ events = 3

\* C22: whenever the page becomes hidden after getCLS counted at least one
\* layout shift, the callback is called once more with the cumulative CLS
\* metric and the observer is disconnected, whatever came before, a
\* visibility change before the first counted shift included.
C22_HiddenReportsCLS ==
  [][(/\ visibilityState = "visible"
      /\ visibilityState' = "hidden"
      /\ observers.CLS.state = "connected"
      /\ clsMetric # NoMetric) =>
       /\ reports'.CLS = Append(reports.CLS, [metric |-> clsMetric,
                                              callback |-> observers.CLS.callback])
       /\ observers'.CLS.state = "disconnected"]_vars

\* The state the divergence leaves, within three events: the page is hidden,
\* the listener of getCLS is gone, spent on a visibility change that had no
\* metric to report, one shift was counted, the one report is that of the
\* shift itself and the observer still observes.  A page loaded hidden gets
\* there by becoming visible, counting the shift and becoming hidden.
C22_Diverges ==
  /\ hiddenSeen
  /\ visibilityState = "hidden"
  /\ visibilityListeners = {}
  /\ observers.CLS.state = "connected"
  /\ delivered.CLS = <<<<[value |-> 15, hadRecentInput |-> FALSE]>>>>
  /\ Len(reports.CLS) = 1
  /\ events = 3

\* The rating a value of a metric calls for: good up to the threshold good,
\* needs-improvement above it up to the threshold needsImprovement, poor
\* above that.
RatingConsistent(metric) ==
  LET thresholds == WEB_VITALS_THRESHOLDS[metric.name]
  IN /\ metric.rating \in {"good", "needs-improvement", "poor"}
     /\ metric.rating = "good" <=> metric.value <= thresholds.good
     /\ metric.rating = "needs-improvement" <=>
          (thresholds.good < metric.value /\ metric.value <= thresholds.needsImprovement)
     /\ metric.rating = "poor" <=> metric.value > thresholds.needsImprovement

\* C23: every metric the callback is called with has the rating its value
\* calls for, and so have the metric objects of getLCP and getCLS after
\* they were updated in place.
C23_RatingMatchesValue ==
  /\ \A name \in DOMAIN reports :
       \A i \in 1..Len(reports[name]) : RatingConsistent(reports[name][i].metric)
  /\ lcpMetric # NoMetric => RatingConsistent(lcpMetric)
  /\ clsMetric # NoMetric => RatingConsistent(clsMetric)

\* The LCP metric went from good to poor and the CLS metric from good to
\* needs-improvement, each updated in place.
C23_Witness ==
  /\ Len(reports.LCP) = 2
  /\ reports.LCP[1].metric.rating = "good"
  /\ reports.LCP[2].metric.rating = "poor"
  /\ lcpMetric = reports.LCP[2].metric
  /\ Len(reports.CLS) = 2
  /\ reports.CLS[1].metric.rating = "good"
  /\ reports.CLS[2].metric.rating = "needs-improvement"
  /\ clsMetric.value = 25

\* The entries of a sequence of batches, in the order of their arrival.
RECURSIVE Arrived(_)
Arrived(batches) ==
  IF batches = <<>> THEN <<>> ELSE Head(batches) \o Arrived(Tail(batches))

\* The layout-shift entries without recent input that reached the observer
\* of getCLS so far.
CountedShifts == SelectSeq(Arrived(delivered.CLS), LAMBDA e : ~e.hadRecentInput)

\* The sum of the values of the first k entries.
RECURSIVE SumOfValues(_, _)
SumOfValues(entries, k) ==
  IF k = 0 THEN 0 ELSE SumOfValues(entries, k - 1) + entries[k].value

\* C24: the observer of getCLS calls the callback once for every entry
\* without recent input and for no other entry; at the k-th of these calls
\* the value of the metric is the sum of the values of the first k such
\* entries, its entries are these k entries in the order of their arrival
\* and its delta is the value of the k-th.  The one call that may follow,
\* from the visibilitychange listener, passes the metric of the last of
\* them.
C24_CumulativeLayoutShift ==
  LET counted == CountedShifts
  IN /\ Len(reports.CLS) \in {Len(counted), Len(counted) + 1}
     /\ Len(reports.CLS) = Len(counted) + 1 =>
          /\ observers.CLS.state = "disconnected"
          /\ Len(counted) > 0
          /\ reports.CLS[Len(counted) + 1].metric = reports.CLS[Len(counted)].metric
     /\ \A k \in 1..Len(counted) :
          LET metric == reports.CLS[k].metric
          IN /\ metric.value = SumOfValues(counted, k)
             /\ metric.entries = SubSeq(counted, 1, k)
             /\ metric.delta = counted[k].value
     /\ clsValue = SumOfValues(counted, Len(counted))
     /\ clsEntries = counted

\* A shift after recent input between two shifts that count: two calls, the
\* second with a value of 0.25 and a delta of 0.15.
C24_Witness ==
  /\ Arrived(delivered.CLS) = <<[value |-> 10, hadRecentInput |-> FALSE],
                                [value |-> 10, hadRecentInput |-> TRUE],
                                [value |-> 15, hadRecentInput |-> FALSE]>>
  /\ Len(reports.CLS) = 2
  /\ reports.CLS[2].metric.value = 25
  /\ reports.CLS[2].metric.delta = 15
  /\ Len(reports.CLS[2].metric.entries) = 2

\* The batches with at least one entry that reached the observer of getLCP
\* so far.
LcpBatchesWithEntries == SelectSeq(delivered.LCP, LAMBDA batch : batch # <<>>)

\* C25: getLCP calls the callback once for every batch that has an entry and
\* not for an empty batch; the value of the metric is the start time of the
\* last entry of the batch; the delta of the first report is its value and
\* the delta of a later report is its value less the value of the report
\* before it.
C25_LcpValueAndDelta ==
  LET batches == LcpBatchesWithEntries
  IN /\ Len(reports.LCP) = Len(batches)
     /\ \A k \in 1..Len(batches) :
          LET metric == reports.LCP[k].metric
              lastEntry == batches[k][Len(batches[k])]
          IN /\ metric.value = lastEntry.startTime
             /\ metric.entries = <<lastEntry>>
             /\ metric.delta = IF k = 1 THEN metric.value
                               ELSE metric.value - reports.LCP[k - 1].metric.value

\* An entry at 2500 ms, an empty batch, then two entries of which the last
\* is at 4001 ms: two reports, the second with a delta of 1501 ms.
C25_Witness ==
  /\ delivered.LCP = <<<<[startTime |-> 2500]>>, <<>>,
                       <<[startTime |-> 4000], [startTime |-> 4001]>>>>
  /\ Len(reports.LCP) = 2
  /\ reports.LCP[1].metric.delta = 2500
  /\ reports.LCP[2].metric.value = 4001
  /\ reports.LCP[2].metric.delta = 1501

\* Whether a batch of paint entries holds a first-contentful-paint entry.
HasFirstContentfulPaint(batch) ==
  \E i \in 1..Len(batch) : batch[i].name = "first-contentful-paint"

\* C26: getFCP and getTTFB call the callback at most once.  The call is made
\* for the first batch with a first-contentful-paint entry (for getTTFB: the
\* first batch with an entry), which is the last batch the observer
\* receives: the observer is disconnected.  Before that batch no call is
\* made and the observer stays connected.
C26_ReportedOnce ==
  /\ Observed("FCP") =>
       LET batches == delivered.FCP
           found == {k \in 1..Len(batches) : HasFirstContentfulPaint(batches[k])}
       IN /\ Len(reports.FCP) <= 1
          /\ found \subseteq {Len(batches)}
          /\ found = {} <=> reports.FCP = <<>>
          /\ found = {} <=> observers.FCP.state = "connected"
          /\ found # {} <=> observers.FCP.state = "disconnected"
  /\ Observed("TTFB") =>
       LET batches == delivered.TTFB
           found == {k \in 1..Len(batches) : batches[k] # <<>>}
       IN /\ Len(reports.TTFB) <= 1
          /\ found \subseteq {Len(batches)}
          /\ found = {} <=> reports.TTFB = <<>>
          /\ found = {} <=> observers.TTFB.state = "connected"
          /\ found # {} <=> observers.TTFB.state = "disconnected"

\* A batch with first-paint only, then one with first-paint and
\* first-contentful-paint, and a navigation entry: one report each, both
\* observers disconnected.
C26_Witness ==
  /\ delivered.FCP = <<<<FirstPaint>>,
                       <<FirstPaint, [name |-> "first-contentful-paint", startTime |-> 1800]>>>>
  /\ Len(reports.FCP) = 1
  /\ reports.FCP[1].metric.value = 1800
  /\ observers.FCP.state = "disconnected"
  /\ Len(delivered.TTFB) = 1
  /\ Len(reports.TTFB) = 1
  /\ observers.TTFB.state = "disconnected"

\* C27: when initWebVitals has returned in a browser with
\* PerformanceObserver, every measurement whose observe() did not throw has
\* its observer registered, all with the one callback (the argument, or the
\* default callback when there is none), and every measurement whose
\* observe() threw has warned and left the others alone; every report goes
\* to that callback.  Without a window nothing is registered.
C27_FailureIsolated ==
  VitalsReturned =>
    /\ "initWebVitals" \in returned
    /\ ~globalObject.defined =>
         /\ \A name \in DOMAIN observers : ~Observed(name)
         /\ visibilityListeners = {}
         /\ warnings = <<>>
    /\ (globalObject.defined /\ globalObject.PerformanceObserver) =>
         \A k \in 1..Len(VitalsCalls) :
           LET name == VitalsCalls[k]
               failed == EntryType[name] \in globalObject.unsupported
           IN /\ failed <=> \E i \in 1..Len(warnings) : warnings[i] = name
              /\ failed <=> ~Observed(name)
              /\ Observed(name) => observers[name].callback = finalCallback(callbackArg)
              /\ \A i \in 1..Len(reports[name]) :
                   reports[name][i].callback = finalCallback(callbackArg)

\* observe() threw on layout-shift: getCLS warned, the four other observers
\* are registered with the default callback, and a first input was reported
\* to it.
C27_Witness ==
  /\ VitalsReturned
  /\ callbackArg = "undefined"
  /\ globalObject.unsupported = {"layout-shift"}
  /\ warnings = <<"CLS">>
  /\ \A name \in {"LCP", "FID", "FCP", "TTFB"} :
       observers[name] = [state |-> "connected", callback |-> "defaultCallback"]
  /\ ~Observed("CLS")
  /\ Len(reports.FID) = 1
  /\ reports.FID[1].callback = "defaultCallback"

====
